---- MODULE Spec2Model ----
(***************************************************************************)
(* Seating designer: the plan model (guests, tables, chairs), its mutators, *)
(* the seat-assignment handlers and the version persistence, modelled from *)
(* src/client/src/pages/seating-designer.tsx and the server's version      *)
(* storage (src/server/routes.ts, versionsStorage).                         *)
(*                                                                         *)
(* Lengths are in pixels, rotations in hundredths of a radian.             *)
(***************************************************************************)
EXTENDS Integers, Sequences, FiniteSets, TLC

VARIABLES
    guests,           \* Guest[]            (useState, line 367)
    tables,           \* TableModel[]       (useState, line 368)
    selectedTableId,  \* string | null      (line 371)
    activeSeat,       \* {tableId, chairId} | null (line 377)
    draggedGuestId,   \* string | null      (line 451)
    tool,             \* "select" | "pan"   (line 306)
    snapToGrid,       \* boolean            (line 305)
    stageSize,        \* {w, h}             (line 424)
    pan,              \* {x, y}             (line 425)
    panning,          \* boolean            (line 426)
    panStart,         \* ref {x, y, px, py} | null (line 428)
    dragging,         \* ref {tableId, startX, startY, tableX, tableY} | null (line 979)
    saveDestination,  \* "server" | "local" (line 453)
    savedVersions,    \* SavedVersion[] kept in local storage (line 458)
    serverVersions,   \* VersionMeta[] last listed from the server (line 454)
    serverSaveLoading,\* boolean            (line 456)
    serverFiles,      \* the server's versions directory: one document per file
    inflight,         \* the page's requests, sent or answered, not yet settled
    uidCount,         \* number of identifiers generated so far (uid, randomUUID)
    toast,            \* title of the last notification shown
    last,             \* history: the handler that ran last, with its arguments
    savedPlans        \* history: version id -> the plan as it was when saved

planVars == <<guests, tables, selectedTableId, activeSeat, draggedGuestId>>
viewVars == <<tool, snapToGrid, stageSize, pan, panning, panStart, dragging>>
persistVars == <<saveDestination, savedVersions, serverVersions,
                 serverSaveLoading, serverFiles, inflight>>
vars == <<planVars, viewVars, persistVars, uidCount, toast, last, savedPlans>>

-----------------------------------------------------------------------------
(* Bounds of the model *)

\* a handler that generates identifiers runs only while fewer than MaxUid
\* identifiers have been generated
MaxUid == 1
\* tables of the initial plan (3 in the source)
DefaultTableCount == 1
\* chairs of each table of the initial plan (8, 10 and 12 in the source)
DefaultChairs == 3
\* seated guests at each table of the initial plan (4, 3 and 3 in the source)
DefaultSeated == 1
\* the user clicks and drops on the first MaxSeatPick chairs of a table
MaxSeatPick == 3

(* Program constants *)
gridSize == 24
MinChairs == 2
MaxChairs == 20
RoundDefaultChairs == 8
RectDefaultChairs == 12
DuplicateOffset == 40
UnassignedShown == 8
PopoverShown == 6

\* undefined and null where a string may stand; an object that may be null
\* is None or Some(object)
Undefined == "<undefined>"
Null == "<null>"
None == <<>>
Some(v) == <<v>>

-----------------------------------------------------------------------------
(* Helpers *)

Min(a, b) == IF a < b THEN a ELSE b
Max(a, b) == IF a > b THEN a ELSE b

RECURSIVE MaxOver(_, _)
\* tables.reduce((m, t) => Math.max(m, t.number), m0)
MaxOver(s, m0) ==
    IF s = <<>> THEN m0 ELSE MaxOver(Tail(s), Max(m0, Head(s).number))

Map(s, F(_)) == [i \in DOMAIN s |-> F(s[i])]
Filter(s, P(_)) == SelectSeq(s, P)
sliceAll(s, a, b) == s
Slice(s, a, b) == SubSeq(s, a + 1, Min(b, Len(s)))

\* Array.prototype.find: Found tells whether an element matches, Find is the
\* first one that does
Found(s, P(_)) == \E i \in DOMAIN s : P(s[i])
Find(s, P(_)) ==
    LET hits == {i \in DOMAIN s : P(s[i])}
    IN  s[CHOOSE i \in hits : \A j \in hits : i <= j]

\* uid(prefix): the prefix followed by a random and a time part; the k-th
\* call of a handler yields the part numbered uidCount + k, never seen before
uid(prefix, k) == prefix \o "_" \o ToString(uidCount + k)

\* a snap that rounds down
snapDown(n) ==
    IF ~snapToGrid THEN n
    ELSE (n \div gridSize) * gridSize

clampNoUpper(n, min, max) == Max(min, n)
clamp(n, min, max) == Max(min, Min(max, n))

\* Math.round(n / gridSize) * gridSize; Math.round rounds halves upwards
snap(n) ==
    IF ~snapToGrid THEN n
    ELSE ((2 * n + gridSize) \div (2 * gridSize)) * gridSize

-----------------------------------------------------------------------------
(* The initial plan: defaultGuests and defaultTables, scaled down to the   *)
(* first DefaultTableCount of the three tables, each with DefaultChairs    *)
(* chairs of which the first DefaultSeated are taken, by guests numbered   *)
(* table after table as in the source                                      *)

defaultGuests ==
    [i \in 1..(DefaultTableCount * DefaultSeated) |->
        [id |-> "g" \o ToString(i),
         name |-> "Guest " \o ToString(i),
         gender |-> IF i % 2 = 1 THEN "female" ELSE "male"]]

defaultChairs(tableId, k) ==
    [i \in 1..DefaultChairs |->
        [id |-> tableId \o "c" \o ToString(i),
         guestId |-> IF i <= DefaultSeated
                     THEN "g" \o ToString(i + (k - 1) * DefaultSeated) ELSE Undefined]]

defaultTables ==
    SubSeq(
    << [id |-> "t1", number |-> 1, shape |-> "round", numberStyle |-> "classic",
        isVip |-> TRUE, x |-> 240, y |-> 210, rotation |-> 0,
        chairs |-> defaultChairs("t1", 1)],
       [id |-> "t2", number |-> 2, shape |-> "round", numberStyle |-> "monogram",
        isVip |-> FALSE, x |-> 520, y |-> 260, rotation |-> 20,
        chairs |-> defaultChairs("t2", 2)],
       [id |-> "t3", number |-> 3, shape |-> "rect", numberStyle |-> "modern",
        isVip |-> FALSE, x |-> 350, y |-> 430, rotation |-> 0,
        chairs |-> defaultChairs("t3", 3)] >>, 1, DefaultTableCount)

\* calculateStageSize on a desktop window (innerWidth >= 768)
tableSize(t) == IF t.shape = "rect" THEN [w |-> 126, h |-> 74] ELSE [w |-> 98, h |-> 98]

RECURSIVE Extent(_, _)
\* the forEach of calculateStageSize: [minX, minY, maxX, maxY] in half pixels
Extent(s, acc) ==
    IF s = <<>> THEN acc
    ELSE LET t == Head(s)
             sz == tableSize(t)
         IN  Extent(Tail(s),
                    [minX |-> IF acc.none THEN 2 * t.x - sz.w ELSE Min(acc.minX, 2 * t.x - sz.w),
                     minY |-> IF acc.none THEN 2 * t.y - sz.h ELSE Min(acc.minY, 2 * t.y - sz.h),
                     maxX |-> IF acc.none THEN 2 * t.x + sz.w ELSE Max(acc.maxX, 2 * t.x + sz.w),
                     maxY |-> IF acc.none THEN 2 * t.y + sz.h ELSE Max(acc.maxY, 2 * t.y + sz.h),
                     none |-> FALSE])

calculateStageSize(tablesList) ==
    IF Len(tablesList) = 0 THEN [w |-> 1000, h |-> 650]
    ELSE LET e == Extent(tablesList,
                         [minX |-> 0, minY |-> 0, maxX |-> 0, maxY |-> 0, none |-> TRUE])
             padding == 200
             calculatedW == (e.maxX - e.minX) \div 2 + padding * 2
             calculatedH == (e.maxY - e.minY) \div 2 + padding * 2
         IN  [w |-> Max(800, calculatedW), h |-> Max(600, calculatedH)]

-----------------------------------------------------------------------------
(* Derived views *)

\* the ids the chairs of the plan refer to (the Set built by unassignedGuests)
assignedIds(ts) ==
    UNION {{ts[i].chairs[j].guestId : j \in DOMAIN ts[i].chairs} : i \in DOMAIN ts}
        \ {Undefined}

\* the chairs of ts, as <<table id, chair id>>, that refer to guest id g
holders(ts, g) ==
    UNION {{<<ts[i].id, ts[i].chairs[j].id>> :
                j \in {k \in DOMAIN ts[i].chairs : ts[i].chairs[k].guestId = g}} :
           i \in DOMAIN ts}

guestIds(gs) == {gs[i].id : i \in DOMAIN gs}

\* a view that looks at the chairs of the first table only
unassignedOfFirstTable(gs, ts) ==
    Filter(gs, LAMBDA g : g.id \notin assignedIds(IF ts = <<>> THEN ts ELSE <<ts[1]>>))

unassignedOf(gs, ts) == Filter(gs, LAMBDA g : g.id \notin assignedIds(ts))
unassignedGuests == unassignedOf(guests, tables)

nextTableNumber == MaxOver(tables, 0) + 1

\* tables kept in the order of the plan
keepOrder(ts) == ts

RECURSIVE sortByNumber(_)
\* [...tables].sort((a, b) => a.number - b.number): a stable sort
sortByNumber(ts) ==
    IF ts = <<>> THEN <<>>
    ELSE LET rest == sortByNumber(Tail(ts))
             t == Head(ts)
             before == SelectSeq(rest, LAMBDA r : r.number < t.number)
             after == SelectSeq(rest, LAMBDA r : r.number >= t.number)
         IN  before \o <<t>> \o after

\* the rows of the guest list by table; a seat's guest is
\* c.guestId ? guests.find(g => g.id === c.guestId) : undefined
guestsByTable ==
    Map(sortByNumber(tables), LAMBDA t :
        [tableId |-> t.id, tableNumber |-> t.number, shape |-> t.shape, isVip |-> t.isVip,
         seats |-> [i \in DOMAIN t.chairs |->
             [chairId |-> t.chairs[i].id,
              seatNumber |-> (i - 1) + 1,
              guest |-> IF t.chairs[i].guestId # Undefined
                           /\ Found(guests, LAMBDA g : g.id = t.chairs[i].guestId)
                        THEN Some(Find(guests, LAMBDA g : g.id = t.chairs[i].guestId))
                        ELSE None]]])

\* selectedTable is tables.find(t => t.id === selectedTableId) ?? null
hasSelectedTable == Found(tables, LAMBDA t : t.id = selectedTableId)
selectedTable == Find(tables, LAMBDA t : t.id = selectedTableId)

\* whether a seat marker shows an occupant:
\* guest = c.guestId ? guests.find(g => g.id === c.guestId) : undefined
resolvesIn(gs, c) == c.guestId # Undefined /\ Found(gs, LAMBDA g : g.id = c.guestId)
hasGuest(c) == resolvesIn(guests, c)

-----------------------------------------------------------------------------
(* Mutators: each maps the previous tables (or guests) to the next ones    *)

\* a shrink that keeps the last chairs instead of the first
setChairsCountKeepLast(prev, tableId, count) ==
    Map(prev, LAMBDA t :
        IF t.id # tableId THEN t
        ELSE LET next == clamp(count, MinChairs, MaxChairs)
                 existing == t.chairs
             IN  IF Len(existing) <= next THEN t
                 ELSE [t EXCEPT !.chairs = Slice(existing, Len(existing) - next, Len(existing))])

\* a growth whose new chairs all take the identifier of the first of them
setChairsCountSameIds(prev, tableId, count) ==
    Map(prev, LAMBDA t :
        IF t.id # tableId THEN t
        ELSE LET next == clamp(count, MinChairs, MaxChairs)
                 existing == t.chairs
             IN  IF Len(existing) = next THEN t
                 ELSE IF Len(existing) < next
                      THEN LET add == [i \in 1..(next - Len(existing)) |->
                                   [id |-> uid(t.id \o "c" \o ToString(Len(existing) + 1), 1),
                                    guestId |-> Undefined]]
                           IN  [t EXCEPT !.chairs = existing \o add]
                      ELSE [t EXCEPT !.chairs = Slice(existing, 0, next)])

setChairsCount(prev, tableId, count) ==
    Map(prev, LAMBDA t :
        IF t.id # tableId THEN t
        ELSE LET next == clamp(count, MinChairs, MaxChairs)
                 existing == t.chairs
             IN  IF Len(existing) = next THEN t
                 ELSE IF Len(existing) < next
                      THEN LET add == [i \in 1..(next - Len(existing)) |->
                                   [id |-> uid(t.id \o "c" \o ToString(Len(existing) + i), i),
                                    guestId |-> Undefined]]
                           IN  [t EXCEPT !.chairs = existing \o add]
                      ELSE [t EXCEPT !.chairs = Slice(existing, 0, next)])

\* the table addTable appends
newTable(shape) ==
    LET id == uid("t", 1)
    IN  [id |-> id, number |-> nextTableNumber, shape |-> shape,
         numberStyle |-> IF shape = "rect" THEN "modern" ELSE "classic",
         isVip |-> FALSE,
         x |-> IF snapToGrid THEN ((stageSize.w - 2 * pan.x + gridSize) \div (2 * gridSize)) * gridSize
               ELSE (stageSize.w - 2 * pan.x) \div 2,
         y |-> IF snapToGrid THEN ((stageSize.h - 2 * pan.y + gridSize) \div (2 * gridSize)) * gridSize
               ELSE (stageSize.h - 2 * pan.y) \div 2,
         rotation |-> 0,
         chairs |-> [i \in 1..(IF shape = "rect" THEN RectDefaultChairs ELSE RoundDefaultChairs) |->
             [id |-> id \o "c" \o ToString(i), guestId |-> Undefined]]]

\* a copy whose chairs are all empty
copiedTableEmptyChairs(t) ==
    LET id == uid("t", 1)
    IN  [t EXCEPT !.id = id,
                  !.number = nextTableNumber,
                  !.x = snap(t.x + DuplicateOffset),
                  !.y = snap(t.y + DuplicateOffset),
                  !.chairs = [i \in DOMAIN t.chairs |->
                      [id |-> id \o "c" \o ToString(i), guestId |-> Undefined]]]

\* the table duplicateTable appends
copiedTable(t) ==
    LET id == uid("t", 1)
    IN  [t EXCEPT !.id = id,
                  !.number = nextTableNumber,
                  !.x = snap(t.x + DuplicateOffset),
                  !.y = snap(t.y + DuplicateOffset),
                  !.chairs = [i \in DOMAIN t.chairs |->
                      [id |-> id \o "c" \o ToString(i), guestId |-> t.chairs[i].guestId]]]

\* a delete that also drops every table after the deleted one
deleteTableAndAfter(prev, tableId) ==
    IF Found(prev, LAMBDA t : t.id = tableId)
    THEN SubSeq(prev, 1, (CHOOSE i \in DOMAIN prev : prev[i].id = tableId
                            /\ \A j \in 1..(i - 1) : prev[j].id # tableId) - 1)
    ELSE prev

deleteTableFrom(prev, tableId) == Filter(prev, LAMBDA t : t.id # tableId)

assignGuest(prev, tableId, chairId, guestId) ==
    Map(prev, LAMBDA t :
        IF t.id # tableId THEN t
        ELSE [t EXCEPT !.chairs =
                 Map(t.chairs, LAMBDA c :
                     IF c.id = chairId THEN [c EXCEPT !.guestId = guestId] ELSE c)])

unassignNobody(prev, guestId) == prev
unassignGuestEverywhere(prev, guestId) ==
    Map(prev, LAMBDA t :
        [t EXCEPT !.chairs =
            Map(t.chairs, LAMBDA c :
                IF c.guestId = guestId THEN [c EXCEPT !.guestId = Undefined] ELSE c)])

removeGuestFrom(prev, guestId) == Filter(prev, LAMBDA g : g.id # guestId)

-----------------------------------------------------------------------------
(* History *)

Record(r) == last' = r

-----------------------------------------------------------------------------
\* a null element of a tables array: reading a property of it throws
nullTable ==
    [id |-> Null, number |-> 0, shape |-> Null, numberStyle |-> Null, isVip |-> FALSE,
     x |-> 0, y |-> 0, rotation |-> 0, chairs |-> <<>>]

\* the page renders: t.id of a null table throws in the render, and React
\* unmounts the component
renders == \A i \in DOMAIN tables : tables[i] # nullTable

-----------------------------------------------------------------------------
\* a request of the page: what it asks, how far it is, and what awaits it;
\* history: the plan it was made from, and the load triggered after it whose
\* response was applied before its own
Request(kind, req, then, plan) ==
    [kind |-> kind, phase |-> "sent", status |-> 0, req |-> req, res |-> None,
     then |-> then, plan |-> plan, overtakenBy |-> Null]

\* the state after the first render: the mount effect has called
\* loadLatestServerVersion, whose fetchServerVersions awaits the list
Init ==
    /\ guests = defaultGuests
    /\ tables = defaultTables
    /\ selectedTableId = "t1"
    /\ activeSeat = None
    /\ draggedGuestId = Null
    /\ tool = "pan"
    /\ snapToGrid = TRUE
    /\ stageSize = calculateStageSize(defaultTables)
    /\ pan = [x |-> 0, y |-> 0]
    /\ panning = FALSE
    /\ panStart = None
    /\ dragging = None
    /\ saveDestination = "server"
    /\ savedVersions = <<>>
    /\ serverVersions = <<>>
    /\ serverSaveLoading = FALSE
    /\ serverFiles = <<>>
    /\ inflight = <<Request("list", Null, "mount", None)>>
    /\ uidCount = 0
    /\ toast = Null
    /\ last = [op |-> "init"]
    /\ savedPlans = <<>>

-----------------------------------------------------------------------------
(* Handlers of the page *)

GuestNames == {"Dr Eve Stone"}
CountInputs == {-5, 0, 2, 4, 21, 999}

\* "Save Guest" button of the guest form (lines 1674-1686)
ClickSaveGuest(name, gender) ==
    /\ uidCount < MaxUid
    /\ guests' = Append(guests, [id |-> uid("g", 1), name |-> name, gender |-> gender])
    /\ uidCount' = uidCount + 1
    /\ Record([op |-> "addGuest"])
    /\ UNCHANGED <<tables, selectedTableId, activeSeat, draggedGuestId,
                   viewVars, persistVars, toast, savedPlans>>

\* the trash button of an unassigned guest card: removeGuest(g.id)
ClickRemoveGuest(i) ==
    /\ i \in 1..Min(UnassignedShown, Len(unassignedGuests))
    /\ LET g == unassignedGuests[i]
       IN  /\ tables' = unassignGuestEverywhere(tables, g.id)
           /\ guests' = removeGuestFrom(guests, g.id)
           /\ Record([op |-> "removeGuest", guestId |-> g.id,
                      seats |-> Cardinality(holders(tables, g.id))])
    /\ UNCHANGED <<selectedTableId, activeSeat, draggedGuestId,
                   viewVars, persistVars, uidCount, toast, savedPlans>>

\* "Round" and "Rect" buttons: addTable(shape)
ClickAddTable(shape) ==
    /\ uidCount < MaxUid
    /\ tables' = Append(tables, newTable(shape))
    /\ selectedTableId' = newTable(shape).id
    /\ uidCount' = uidCount + 1
    /\ Record([op |-> "addTable", shape |-> shape])
    /\ UNCHANGED <<guests, activeSeat, draggedGuestId, viewVars, persistVars, toast, savedPlans>>

\* duplicate button of the selected table: duplicateTable(selectedTable.id)
ClickDuplicateTable ==
    /\ hasSelectedTable
    /\ uidCount < MaxUid
    /\ tables' = Append(tables, copiedTable(selectedTable))
    /\ selectedTableId' = copiedTable(selectedTable).id
    /\ uidCount' = uidCount + 1
    /\ Record([op |-> "duplicateTable", tableId |-> selectedTableId])
    /\ UNCHANGED <<guests, activeSeat, draggedGuestId, viewVars, persistVars, toast, savedPlans>>

\* history: the guest ids on the chairs that setChairsCount(t.id, n) removes
lostBy(t, n) ==
    {t.chairs[j].guestId :
        j \in {k \in DOMAIN t.chairs : k > clamp(n, MinChairs, MaxChairs)}} \ {Undefined}

\* a deleteTable that leaves the selection as it is
deleteTableKeepsSelection(tableId) ==
    /\ tables' = deleteTableFrom(tables, tableId)
    /\ selectedTableId' = selectedTableId

deleteTable(tableId) ==
    /\ tables' = deleteTableFrom(tables, tableId)
    /\ selectedTableId' = IF selectedTableId = tableId THEN Null ELSE selectedTableId

\* a delete button that also removes the guests seated at the table
ClickDeleteTableAndGuests ==
    /\ renders
    /\ hasSelectedTable
    /\ deleteTable(selectedTable.id)
    /\ guests' = SelectSeq(guests, LAMBDA g :
                     \A j \in DOMAIN selectedTable.chairs :
                         selectedTable.chairs[j].guestId # g.id)
    /\ Record([op |-> "deleteTable", tableId |-> selectedTableId])
    /\ UNCHANGED <<activeSeat, draggedGuestId, viewVars, persistVars,
                   uidCount, toast, savedPlans>>

\* delete button of the selected table
ClickDeleteTable ==
    /\ renders
    /\ hasSelectedTable
    /\ deleteTable(selectedTable.id)
    /\ Record([op |-> "deleteTable", tableId |-> selectedTableId])
    /\ UNCHANGED <<guests, activeSeat, draggedGuestId, viewVars, persistVars,
                   uidCount, toast, savedPlans>>

\* chair-count field of the selected table: setChairsCount(selectedTable.id, n)
ChangeChairCount(n) ==
    /\ hasSelectedTable
    /\ LET grown == Max(0, clamp(n, MinChairs, MaxChairs) - Len(selectedTable.chairs))
       IN  /\ grown > 0 => uidCount < MaxUid
           /\ uidCount' = uidCount + grown
    /\ tables' = setChairsCount(tables, selectedTable.id, n)
    /\ Record([op |-> "setChairsCount", tableId |-> selectedTableId, count |-> n,
               lost |-> lostBy(selectedTable, n)])
    /\ UNCHANGED <<guests, selectedTableId, activeSeat, draggedGuestId,
                   viewVars, persistVars, toast, savedPlans>>

\* a table header of the sidebar list, or a double click on a table
ClickSelectTable(i) ==
    /\ i \in DOMAIN tables
    /\ selectedTableId # tables[i].id
    /\ selectedTableId' = tables[i].id
    /\ Record([op |-> "selectTable"])
    /\ UNCHANGED <<guests, tables, activeSeat, draggedGuestId, viewVars,
                   persistVars, uidCount, toast, savedPlans>>

\* the seat popover's onOpenChange(true) together with the marker's onClick
OpenSeat(i, j) ==
    /\ i \in DOMAIN tables
    /\ j \in 1..Min(MaxSeatPick, Len(tables[i].chairs))
    /\ activeSeat' = Some([tableId |-> tables[i].id, chairId |-> tables[i].chairs[j].id])
    /\ selectedTableId' = tables[i].id
    /\ Record([op |-> "openSeat"])
    /\ UNCHANGED <<guests, tables, draggedGuestId, viewVars, persistVars,
                   uidCount, toast, savedPlans>>

\* the seat popover's onOpenChange(false), and the Escape key
CloseSeat ==
    /\ activeSeat # None
    /\ activeSeat' = None
    /\ Record([op |-> "closeSeat"])
    /\ UNCHANGED <<guests, tables, selectedTableId, draggedGuestId, viewVars,
                   persistVars, uidCount, toast, savedPlans>>

\* the table and chair positions the open popover belongs to, if they exist
OpenSeats ==
    {p \in {<<i, j>> : i \in DOMAIN tables, j \in 1..MaxChairs} :
        /\ p[2] \in DOMAIN tables[p[1]].chairs
        /\ activeSeat # None
        /\ activeSeat[1].tableId = tables[p[1]].id
        /\ activeSeat[1].chairId = tables[p[1]].chairs[p[2]].id}

\* "Move to unassigned" of the open popover: assignGuest(t.id, c.id, undefined)
PopoverClear ==
    \E p \in OpenSeats :
        LET t == tables[p[1]]
            c == t.chairs[p[2]]
        IN  /\ hasGuest(c)
            /\ tables' = assignGuest(tables, t.id, c.id, Undefined)
            /\ Record([op |-> "clearSeat", tableId |-> t.id, chairId |-> c.id])
            /\ UNCHANGED <<guests, selectedTableId, activeSeat, draggedGuestId,
                           viewVars, persistVars, uidCount, toast, savedPlans>>

\* "Pick from unassigned" of the open popover: assignGuest(t.id, c.id, g.id)
PopoverAssign(k) ==
    /\ k \in 1..Min(PopoverShown, Len(unassignedGuests))
    /\ \E p \in OpenSeats :
        LET t == tables[p[1]]
            c == t.chairs[p[2]]
            g == unassignedGuests[k]
        IN  /\ tables' = assignGuest(tables, t.id, c.id, g.id)
            /\ Record([op |-> "popoverAssign", tableId |-> t.id, chairId |-> c.id,
                       guestId |-> g.id, done |-> TRUE])
            /\ UNCHANGED <<guests, selectedTableId, activeSeat, draggedGuestId,
                           viewVars, persistVars, uidCount, toast, savedPlans>>

\* onDragStart of an unassigned guest card
DragStart(k) ==
    /\ k \in 1..Min(UnassignedShown, Len(unassignedGuests))
    /\ draggedGuestId' = unassignedGuests[k].id
    /\ Record([op |-> "dragStart"])
    /\ UNCHANGED <<guests, tables, selectedTableId, activeSeat, viewVars,
                   persistVars, uidCount, toast, savedPlans>>

\* onDragEnd of the card
DragEnd ==
    /\ draggedGuestId # Null
    /\ draggedGuestId' = Null
    /\ Record([op |-> "dragEnd"])
    /\ UNCHANGED <<guests, tables, selectedTableId, activeSeat, viewVars,
                   persistVars, uidCount, toast, savedPlans>>

dropAllowed(c) == draggedGuestId # Null /\ ~hasGuest(c)

\* onDrop of a seat marker
Drop(i, j) ==
    /\ i \in DOMAIN tables
    /\ j \in 1..Min(MaxSeatPick, Len(tables[i].chairs))
    /\ LET t == tables[i]
           c == t.chairs[j]
       IN  /\ IF dropAllowed(c)
              THEN /\ tables' = assignGuest(tables, t.id, c.id, draggedGuestId)
                   /\ draggedGuestId' = Null
              ELSE UNCHANGED <<tables, draggedGuestId>>
           /\ Record([op |-> "drop", tableId |-> t.id, chairId |-> c.id,
                      guestId |-> draggedGuestId, done |-> dropAllowed(c)])
    /\ UNCHANGED <<guests, selectedTableId, activeSeat, viewVars, persistVars,
                   uidCount, toast, savedPlans>>

PlanNext ==
    \/ \E n \in GuestNames, s \in {"female", "male"} : ClickSaveGuest(n, s)
    \/ \E i \in 1..UnassignedShown : ClickRemoveGuest(i)
    \/ \E s \in {"round", "rect"} : ClickAddTable(s)
    \/ ClickDuplicateTable
    \/ ClickDeleteTable
    \/ \E n \in CountInputs : ChangeChairCount(n)
    \/ \E i \in 1..(DefaultTableCount + MaxUid) : ClickSelectTable(i)
    \/ \E i \in 1..(DefaultTableCount + MaxUid), j \in 1..MaxSeatPick : OpenSeat(i, j)
    \/ CloseSeat
    \/ PopoverClear
    \/ \E k \in 1..PopoverShown : PopoverAssign(k)
    \/ \E k \in 1..UnassignedShown : DragStart(k)
    \/ DragEnd
    \/ \E i \in 1..(DefaultTableCount + MaxUid), j \in 1..MaxSeatPick : Drop(i, j)

Next == PlanNext

Spec == Init /\ [][Next]_vars

\* every handler of the plan except the duplicate button
NoDupNext ==
    \/ \E n \in GuestNames, s \in {"female", "male"} : ClickSaveGuest(n, s)
    \/ \E i \in 1..UnassignedShown : ClickRemoveGuest(i)
    \/ \E s \in {"round", "rect"} : ClickAddTable(s)
    \/ ClickDeleteTable
    \/ \E n \in CountInputs : ChangeChairCount(n)
    \/ \E i \in 1..(DefaultTableCount + MaxUid) : ClickSelectTable(i)
    \/ \E i \in 1..(DefaultTableCount + MaxUid), j \in 1..MaxSeatPick : OpenSeat(i, j)
    \/ CloseSeat
    \/ PopoverClear
    \/ \E k \in 1..PopoverShown : PopoverAssign(k)
    \/ \E k \in 1..UnassignedShown : DragStart(k)
    \/ DragEnd
    \/ \E i \in 1..(DefaultTableCount + MaxUid), j \in 1..MaxSeatPick : Drop(i, j)

SpecNoDup == Init /\ [][NoDupNext]_vars

-----------------------------------------------------------------------------
(* The mutators called directly, with any arguments *)

\* history: the guest ids held by chairs of table tableId and of no other table
seatedOnlyAt(tableId) ==
    {g \in assignedIds(tables) : \A h \in holders(tables, g) : h[1] = tableId}

CallDuplicateTable(tableId) ==
    /\ uidCount < MaxUid
    /\ IF Found(tables, LAMBDA t : t.id = tableId)
       THEN LET t == Find(tables, LAMBDA x : x.id = tableId)
            IN  /\ tables' = Append(tables, copiedTable(t))
                /\ selectedTableId' = copiedTable(t).id
                /\ uidCount' = uidCount + 1
       ELSE UNCHANGED <<tables, selectedTableId, uidCount>>
    /\ Record([op |-> "duplicateTable", tableId |-> tableId])
    /\ UNCHANGED <<guests, activeSeat, draggedGuestId, viewVars, persistVars, toast, savedPlans>>

CallDeleteTable(tableId) ==
    /\ deleteTable(tableId)
    /\ Record([op |-> "deleteTable", tableId |-> tableId, key |-> FALSE,
               freed |-> seatedOnlyAt(tableId)])
    /\ UNCHANGED <<guests, activeSeat, draggedGuestId, viewVars, persistVars,
                   uidCount, toast, savedPlans>>

\* keydown listener of the window: Delete with a selected table id
KeyDelete ==
    /\ renders
    /\ selectedTableId # Null
    /\ deleteTable(selectedTableId)
    /\ Record([op |-> "deleteTable", tableId |-> selectedTableId, key |-> TRUE,
               freed |-> seatedOnlyAt(selectedTableId)])
    /\ UNCHANGED <<guests, activeSeat, draggedGuestId, viewVars, persistVars,
                   uidCount, toast, savedPlans>>

CallSetChairsCount(i, n) ==
    /\ i \in DOMAIN tables
    /\ LET grown == Max(0, clamp(n, MinChairs, MaxChairs) - Len(tables[i].chairs))
       IN  /\ grown > 0 => uidCount < MaxUid
           /\ uidCount' = uidCount + grown
    /\ tables' = setChairsCount(tables, tables[i].id, n)
    /\ Record([op |-> "setChairsCount", tableId |-> tables[i].id, count |-> n,
               lost |-> lostBy(tables[i], n)])
    /\ UNCHANGED <<guests, selectedTableId, activeSeat, draggedGuestId,
                   viewVars, persistVars, toast, savedPlans>>

CallAssignGuest(i, j, guestId) ==
    /\ i \in DOMAIN tables
    /\ j \in 1..Min(MaxSeatPick, Len(tables[i].chairs))
    /\ tables' = assignGuest(tables, tables[i].id, tables[i].chairs[j].id, guestId)
    /\ Record([op |-> "assignGuest", tableId |-> tables[i].id,
               chairId |-> tables[i].chairs[j].id, guestId |-> guestId])
    /\ UNCHANGED <<guests, selectedTableId, activeSeat, draggedGuestId,
                   viewVars, persistVars, uidCount, toast, savedPlans>>

CallUnassignGuestEverywhere(guestId) ==
    /\ tables' = unassignGuestEverywhere(tables, guestId)
    /\ Record([op |-> "unassignGuestEverywhere", guestId |-> guestId])
    /\ UNCHANGED <<guests, selectedTableId, activeSeat, draggedGuestId,
                   viewVars, persistVars, uidCount, toast, savedPlans>>

CallRemoveGuest(guestId) ==
    /\ tables' = unassignGuestEverywhere(tables, guestId)
    /\ guests' = removeGuestFrom(guests, guestId)
    /\ Record([op |-> "removeGuest", guestId |-> guestId,
               seats |-> Cardinality(holders(tables, guestId))])
    /\ UNCHANGED <<selectedTableId, activeSeat, draggedGuestId,
                   viewVars, persistVars, uidCount, toast, savedPlans>>

OpsNext ==
    \/ \E s \in {"round", "rect"} : ClickAddTable(s)
    \/ \E id \in {tables[i].id : i \in DOMAIN tables} \cup {"t0"} : CallDuplicateTable(id)
    \/ \E id \in {tables[i].id : i \in DOMAIN tables} : CallDeleteTable(id)
    \/ KeyDelete
    \/ \E i \in 1..(DefaultTableCount + MaxUid), n \in CountInputs : CallSetChairsCount(i, n)
    \/ \E i \in 1..(DefaultTableCount + MaxUid), j \in 1..MaxSeatPick,
           g \in guestIds(guests) \cup {Undefined} : CallAssignGuest(i, j, g)
    \/ \E g \in guestIds(guests) : CallUnassignGuestEverywhere(g)
    \/ \E g \in guestIds(guests) : CallRemoveGuest(g)

SpecOps == Init /\ [][OpsNext]_vars

-----------------------------------------------------------------------------
(* The table number field *)

\* what the number field (type="number") delivers: nothing, or a number
NumberInputs == {None, Some(-2), Some(0), Some(3)}

\* Number(e.target.value || 1): the empty field gives 1, "0" gives 0
numberOfInput(v) == IF v = None THEN 1 ELSE v[1]

\* setTablePatch(tableId, {number})
setTablePatchNumber(prev, tableId, number) ==
    Map(prev, LAMBDA t : IF t.id = tableId THEN [t EXCEPT !.number = number] ELSE t)

\* onChange of the table number field of the selected table
ChangeTableNumber(v) ==
    /\ renders
    /\ hasSelectedTable
    /\ tables' = setTablePatchNumber(tables, selectedTable.id, numberOfInput(v))
    /\ Record([op |-> "setTableNumber", number |-> numberOfInput(v)])
    /\ UNCHANGED <<guests, selectedTableId, activeSeat, draggedGuestId, viewVars,
                   persistVars, uidCount, toast, savedPlans>>

NumberNext ==
    \/ \E v \in NumberInputs : ChangeTableNumber(v)
    \/ \E s \in {"round", "rect"} : ClickAddTable(s)
    \/ ClickDuplicateTable
    \/ ClickDeleteTable
    \/ \E i \in 1..(DefaultTableCount + MaxUid) : ClickSelectTable(i)

SpecNumber == Init /\ [][NumberNext]_vars

-----------------------------------------------------------------------------
(* The CSV export *)

\* a guest name typed in the guest form that holds a comma and quotes
CsvNames == {"Stone, \"Eve\""}

\* escapeCsvCell on the cell values of the plans explored: of these only the
\* name of CsvNames matches /[",\r\n]/; it is wrapped in quotes, its quotes
\* doubled
escapeCsvCell(value) ==
    IF value = "Stone, \"Eve\"" THEN "\"Stone, \"\"Eve\"\"\"" ELSE value

\* String(n) of a table or seat number
String(n) == ToString(n)

RECURSIVE seatRows(_)
\* guestsByTable.forEach(... seats.forEach(... rows.push([...])))
seatRows(rowsOfTables) ==
    IF rowsOfTables = <<>> THEN <<>>
    ELSE LET t == Head(rowsOfTables)
         IN  [i \in DOMAIN t.seats |->
                 << String(t.tableNumber),
                    IF t.isVip THEN "Yes" ELSE "",
                    String(t.seats[i].seatNumber),
                    IF t.seats[i].guest # None THEN t.seats[i].guest[1].name ELSE "",
                    IF t.seats[i].guest # None THEN t.seats[i].guest[1].gender ELSE "" >>]
             \o seatRows(Tail(rowsOfTables))

\* the rows without the rows of the unassigned guests
csvRowsSeatsOnly ==
    Map(<< <<"Table Number", "VIP", "Seat", "Guest Name", "Gender">> >>
            \o seatRows(guestsByTable),
        LAMBDA row : Map(row, escapeCsvCell))

\* the rows of the file exportToCsv builds, each a sequence of escaped cells
\* (the file joins the cells by "," and the rows by "\r\n")
csvRows ==
    Map(<< <<"Table Number", "VIP", "Seat", "Guest Name", "Gender">> >>
            \o seatRows(guestsByTable)
            \o Map(unassignedGuests, LAMBDA g : <<"", "", "", g.name, g.gender>>),
        LAMBDA row : Map(row, escapeCsvCell))

\* "Export CSV" button: exportToCsv
ClickExportCsv ==
    /\ renders
    /\ Record([op |-> "exportToCsv", rows |-> csvRows])
    /\ UNCHANGED <<planVars, viewVars, persistVars, uidCount, toast, savedPlans>>

CsvNext ==
    \/ ClickExportCsv
    \/ \E n \in CsvNames, s \in {"female"} : ClickSaveGuest(n, s)
    \/ \E v \in NumberInputs : ChangeTableNumber(v)
    \/ \E s \in {"round"} : ClickAddTable(s)
    \/ ClickDuplicateTable
    \/ \E i \in 1..(DefaultTableCount + MaxUid) : ClickSelectTable(i)
    \/ \E g \in guestIds(guests) : CallUnassignGuestEverywhere(g)
    \/ \E k \in 1..UnassignedShown : DragStart(k)
    \/ \E i \in 1..UnassignedShown : ClickRemoveGuest(i)
    \/ \E i \in 1..(DefaultTableCount + MaxUid), j \in 1..MaxSeatPick : Drop(i, j)

SpecCsv == Init /\ [][CsvNext]_vars

\* the handlers that change what the guest list by table shows
ViewsNext ==
    \/ \E v \in NumberInputs : ChangeTableNumber(v)
    \/ \E s \in {"round", "rect"} : ClickAddTable(s)
    \/ ClickDuplicateTable
    \/ \E i \in 1..(DefaultTableCount + MaxUid) : ClickSelectTable(i)
    \/ \E g \in guestIds(guests) : CallUnassignGuestEverywhere(g)
    \/ \E k \in 1..UnassignedShown : DragStart(k)
    \/ \E i \in 1..UnassignedShown : ClickRemoveGuest(i)
    \/ \E i \in 1..(DefaultTableCount + MaxUid), j \in 1..MaxSeatPick : Drop(i, j)

SpecViews == Init /\ [][ViewsNext]_vars

-----------------------------------------------------------------------------
(* Pointer gestures on the stage *)

\* pointers stay within this many pixels of where a gesture began
MaxPan == 30
PointerPositions == {[x |-> 0, y |-> 0], [x |-> MaxPan, y |-> 0]}

\* a dragged table is moved no further than MaxPan left or right of the
\* places of the initial plan
DragXs == (240 - MaxPan)..(240 + DuplicateOffset + MaxPan)

setTablePatchPos(prev, tableId, x, y) ==
    Map(prev, LAMBDA t : IF t.id = tableId THEN [t EXCEPT !.x = x, !.y = y] ELSE t)

\* onPointerDown of the stage: onStagePointerDown
StagePointerDown(p) ==
    /\ IF tool # "pan" THEN UNCHANGED <<panning, panStart>>
       ELSE /\ panning' = TRUE
            /\ panStart' = Some([x |-> p.x, y |-> p.y, px |-> pan.x, py |-> pan.y])
    /\ Record([op |-> "stagePointerDown"])
    /\ UNCHANGED <<planVars, tool, snapToGrid, stageSize, pan, dragging,
                   persistVars, uidCount, toast, savedPlans>>

\* onPointerDown of a table: startDrag(t.id, e), and then, the event bubbling
\* to the stage, onStagePointerDown
TablePointerDown(i, p) ==
    /\ i \in DOMAIN tables
    /\ IF tool # "select" THEN UNCHANGED <<selectedTableId, dragging>>
       ELSE /\ selectedTableId' = tables[i].id
            /\ dragging' = Some([tableId |-> tables[i].id, startX |-> p.x, startY |-> p.y,
                                 tableX |-> tables[i].x, tableY |-> tables[i].y])
    /\ IF tool # "pan" THEN UNCHANGED <<panning, panStart>>
       ELSE /\ panning' = TRUE
            /\ panStart' = Some([x |-> p.x, y |-> p.y, px |-> pan.x, py |-> pan.y])
    /\ Record([op |-> "tablePointerDown"])
    /\ UNCHANGED <<guests, tables, activeSeat, draggedGuestId, tool, snapToGrid,
                   stageSize, pan, persistVars, uidCount, toast, savedPlans>>

\* the Select and Pan buttons: setTool
SetTool(t) ==
    /\ t # tool
    /\ tool' = t
    /\ Record([op |-> "setTool"])
    /\ UNCHANGED <<planVars, snapToGrid, stageSize, pan, panning, panStart, dragging,
                   persistVars, uidCount, toast, savedPlans>>

\* the Snap button and the snap switch: setSnapToGrid
ToggleSnap ==
    /\ snapToGrid' = ~snapToGrid
    /\ Record([op |-> "toggleSnap"])
    /\ UNCHANGED <<planVars, tool, stageSize, pan, panning, panStart, dragging,
                   persistVars, uidCount, toast, savedPlans>>

\* onPointerMove of the stage: onStagePointerMove, then moveDrag
StagePointerMove(p) ==
    /\ IF ~panning \/ tool # "pan" \/ panStart = None THEN pan' = pan
       ELSE pan' = [x |-> panStart[1].px + (p.x - panStart[1].x),
                    y |-> panStart[1].py + (p.y - panStart[1].y)]
    /\ pan'.x \in (0 - MaxPan)..MaxPan /\ pan'.y \in (0 - MaxPan)..MaxPan
    /\ IF dragging = None THEN tables' = tables
       ELSE LET d == dragging[1]
            IN  tables' = setTablePatchPos(tables, d.tableId,
                                           snap(d.tableX + (p.x - d.startX)),
                                           snap(d.tableY + (p.y - d.startY)))
    /\ \A i \in DOMAIN tables' : tables'[i].x \in DragXs
    /\ Record([op |-> "stagePointerMove", p |-> p])
    /\ UNCHANGED <<guests, selectedTableId, activeSeat, draggedGuestId, tool,
                   snapToGrid, stageSize, panning, panStart, dragging,
                   persistVars, uidCount, toast, savedPlans>>

StagePointerUpKeepsDrag ==
    /\ panning' = FALSE
    /\ panStart' = None
    /\ Record([op |-> "stagePointerUp"])
    /\ UNCHANGED <<planVars, tool, snapToGrid, stageSize, pan, dragging,
                   persistVars, uidCount, toast, savedPlans>>

\* onPointerUp of the stage: onStagePointerUp, then endDrag
StagePointerUp ==
    /\ panning' = FALSE
    /\ panStart' = None
    /\ dragging' = None
    /\ Record([op |-> "stagePointerUp"])
    /\ UNCHANGED <<planVars, tool, snapToGrid, stageSize, pan,
                   persistVars, uidCount, toast, savedPlans>>

PointerNext ==
    \/ \E t \in {"select", "pan"} : SetTool(t)
    \/ \E p \in PointerPositions : StagePointerDown(p)
    \/ \E i \in 1..DefaultTableCount, p \in PointerPositions : TablePointerDown(i, p)
    \/ \E p \in PointerPositions : StagePointerMove(p)
    \/ StagePointerUp
    \/ ClickDuplicateTable
    \/ \E i \in 1..(DefaultTableCount + MaxUid) : ClickSelectTable(i)

SpecPointer == Init /\ [][PointerNext]_vars

\* table drags with the snap switch
DragNext ==
    \/ \E t \in {"select", "pan"} : SetTool(t)
    \/ ToggleSnap
    \/ \E i \in 1..DefaultTableCount, p \in PointerPositions : TablePointerDown(i, p)
    \/ \E p \in PointerPositions : StagePointerMove(p)
    \/ StagePointerUp
    \/ ClickDuplicateTable

SpecDrag == Init /\ [][DragNext]_vars

-----------------------------------------------------------------------------
(* A click on a seat marker, as React dispatches it *)

\* The marker is a button inside the span that carries the popover trigger
\* (PopoverTrigger asChild, 2046-2047). The click runs the button's onClick
\* first: e.stopPropagation(), then setSelectedTableId(t.id) (2075-2078).
\* A handler of an enclosing element, the trigger's among them, runs only
\* if the propagation has not been stopped; the trigger's handler asks
\* onOpenChange(!open) (2042-2044).
ClickSeat(i, j) ==
    /\ renders
    /\ i \in DOMAIN tables
    /\ j \in 1..Min(MaxSeatPick, Len(tables[i].chairs))
    /\ LET t == tables[i]
           c == t.chairs[j]
           propagationStopped == TRUE
           open == /\ activeSeat # None
                   /\ activeSeat[1].tableId = t.id
                   /\ activeSeat[1].chairId = c.id
       IN  /\ selectedTableId' = t.id
           /\ activeSeat' = IF propagationStopped THEN activeSeat
                            ELSE IF open THEN None
                            ELSE Some([tableId |-> t.id, chairId |-> c.id])
           /\ Record([op |-> "clickSeat", tableId |-> t.id, chairId |-> c.id])
    /\ UNCHANGED <<guests, tables, draggedGuestId, viewVars, persistVars,
                   uidCount, toast, savedPlans>>

\* keydown listener of the window: Escape
KeyEscape ==
    /\ renders
    /\ activeSeat' = None
    /\ Record([op |-> "keyEscape"])
    /\ UNCHANGED <<guests, tables, selectedTableId, draggedGuestId, viewVars,
                   persistVars, uidCount, toast, savedPlans>>

SeatNext ==
    \/ \E i \in 1..(DefaultTableCount + MaxUid), j \in 1..MaxSeatPick : ClickSeat(i, j)
    \/ KeyEscape
    \/ KeyDelete
    \/ ToggleSnap
    \/ \E s \in {"round", "rect"} : ClickAddTable(s)
    \/ ClickDuplicateTable
    \/ ClickDeleteTable
    \/ \E i \in 1..(DefaultTableCount + MaxUid) : ClickSelectTable(i)

SpecSeat == Init /\ [][SeatNext]_vars

-----------------------------------------------------------------------------
(* JSON documents                                                          *)
(* A document is a record whose optional keys are None when absent; an     *)
(* array is tagged so that Array.isArray can tell it from any other value  *)

Arr(items) == [isArray |-> TRUE, items |-> items]
NotArray == [isArray |-> FALSE, items |-> <<>>]

\* JSON.stringify leaves out a key whose value is undefined
toJsonChair(c) ==
    [id |-> c.id, guestId |-> IF c.guestId = Undefined THEN None ELSE Some(c.guestId)]
toJsonTables(ts) == Map(ts, LAMBDA t : [t EXCEPT !.chairs = Map(t.chairs, toJsonChair)])

\* reading c.guestId of a parsed chair gives undefined when the key is absent
fromJsonChair(j) ==
    [id |-> j.id, guestId |-> IF j.guestId = None THEN Undefined ELSE j.guestId[1]]
fromJsonTables(js) == Map(js, LAMBDA t : [t EXCEPT !.chairs = Map(t.chairs, fromJsonChair)])

\* String.prototype.trim on the names the user types
trim(name) ==
    CASE name = "   " -> ""
      [] name = " Plan A " -> "Plan A"
      [] OTHER -> name

VersionNames == {"   ", " Plan A "}

-----------------------------------------------------------------------------
(* The server: POST, GET list and GET one of /api/versions over the        *)
(* versions directory                                                      *)

\* requests the page has sent and not settled yet
MaxInflight == 2

randomUUID == "uuid-" \o ToString(uidCount + 1)
\* /^[a-f0-9-]{36}$/i on the identifiers of the model: those of randomUUID
isValidIdAny(id) == TRUE
isValidId(id) == \E n \in 1..(MaxUid + MaxChairs) : id = "uuid-" \o ToString(n)

\* saveVersion(payload): the document written and the meta returned
saveVersionFull(payload) ==
    [id |-> randomUUID, name |-> payload.name, savedAt |-> uidCount + 1,
     guests |-> payload.guests, tables |-> payload.tables,
     stageSize |-> None, pan |-> None]
toMetaOtherId(data) == [id |-> "uuid-0", name |-> data.name, savedAt |-> data.savedAt]
toMeta(data) == [id |-> data.id, name |-> data.name, savedAt |-> data.savedAt]

sortDirectoryOrder(meta) == meta

RECURSIVE sortNewestFirst(_)
\* meta.sort((a, b) => time(b.savedAt) - time(a.savedAt)): a stable insertion
sortNewestFirst(meta) ==
    IF meta = <<>> THEN <<>>
    ELSE LET rest == sortNewestFirst(Tail(meta))
             m == Head(meta)
             before == SelectSeq(rest, LAMBDA r : r.savedAt > m.savedAt)
             after == SelectSeq(rest, LAMBDA r : r.savedAt <= m.savedAt)
         IN  before \o <<m>> \o after

\* a file of the directory whose content JSON.parse rejects: what a write
\* that failed part-way leaves behind
unparsable(id) == [id |-> id, unparsable |-> TRUE]
jsonParses(f) == "unparsable" \notin DOMAIN f

\* listVersions(): a file with an invalid name is passed over, one whose
\* content does not parse is skipped by the catch
listVersions ==
    sortNewestFirst(Map(SelectSeq(serverFiles, LAMBDA f : isValidId(f.id) /\ jsonParses(f)),
                        toMeta))

getVersionAny(id) ==
    IF Found(serverFiles, LAMBDA f : jsonParses(f))
    THEN Some(Find(serverFiles, LAMBDA f : jsonParses(f)))
    ELSE None

\* getVersion(id): null for an invalid id before any path is built, null when
\* the file cannot be read or parsed
getVersion(id) ==
    IF isValidId(id) /\ Found(serverFiles, LAMBDA f : f.id = id /\ jsonParses(f))
    THEN Some(Find(serverFiles, LAMBDA f : f.id = id /\ jsonParses(f)))
    ELSE None

Settled(i, status, res) ==
    inflight' = [inflight EXCEPT ![i].phase = "done", ![i].status = status, ![i].res = res]

\* app.post("/api/versions"); the directory is writable or not
ServerPost(i, writable) ==
    /\ i \in DOMAIN inflight
    /\ inflight[i].kind = "save" /\ inflight[i].phase = "sent"
    /\ LET body == inflight[i].req
       IN  IF ~body.guests.isArray \/ ~body.tables.isArray
           THEN /\ Settled(i, 400, None)
                /\ UNCHANGED <<serverFiles, uidCount, savedPlans>>
           ELSE IF ~writable
           THEN /\ Settled(i, 500, None)
                /\ UNCHANGED <<serverFiles, uidCount, savedPlans>>
           ELSE LET payload == [name |-> IF trim(body.name) = "" THEN "Unnamed version"
                                         ELSE trim(body.name),
                                guests |-> body.guests, tables |-> body.tables]
                    full == saveVersionFull(payload)
                IN  /\ uidCount < MaxUid
                    /\ serverFiles' = Append(serverFiles, full)
                    /\ uidCount' = uidCount + 1
                    /\ savedPlans' = (full.id :> inflight[i].plan) @@ savedPlans
                    /\ Settled(i, 201, Some(toMeta(full)))
    /\ Record([op |-> "serverPost"])
    /\ UNCHANGED <<planVars, viewVars, saveDestination, savedVersions, serverVersions,
                   serverSaveLoading, toast>>

\* app.get("/api/versions")
ServerList(i, readable) ==
    /\ i \in DOMAIN inflight
    /\ inflight[i].kind = "list" /\ inflight[i].phase = "sent"
    /\ IF readable THEN Settled(i, 200, listVersions) ELSE Settled(i, 500, <<>>)
    /\ Record([op |-> "serverList"])
    /\ UNCHANGED <<planVars, viewVars, saveDestination, savedVersions, serverVersions,
                   serverSaveLoading, serverFiles, uidCount, toast, savedPlans>>

\* app.get("/api/versions/:id"): getVersion(id), 404 when it returns null
ServerGet(i) ==
    /\ i \in DOMAIN inflight
    /\ inflight[i].kind = "load" /\ inflight[i].phase = "sent"
    /\ LET id == inflight[i].req
           there == isValidId(id) /\ Found(serverFiles, LAMBDA f : f.id = id)
       IN  IF there THEN Settled(i, 200, Some(Find(serverFiles, LAMBDA f : f.id = id)))
           ELSE Settled(i, 404, None)
    /\ Record([op |-> "serverGet"])
    /\ UNCHANGED <<planVars, viewVars, saveDestination, savedVersions, serverVersions,
                   serverSaveLoading, serverFiles, uidCount, toast, savedPlans>>

\* app.delete("/api/versions/:id"): deleteVersion(id), 404 when it returns false
ServerDelete(i) ==
    /\ i \in DOMAIN inflight
    /\ inflight[i].kind = "delete" /\ inflight[i].phase = "sent"
    /\ LET id == inflight[i].req
           there == isValidId(id) /\ Found(serverFiles, LAMBDA f : f.id = id)
       IN  IF there
           THEN /\ serverFiles' = Filter(serverFiles, LAMBDA f : f.id # id)
                /\ Settled(i, 204, None)
           ELSE /\ UNCHANGED serverFiles
                /\ Settled(i, 404, None)
    /\ Record([op |-> "serverDelete"])
    /\ UNCHANGED <<planVars, viewVars, saveDestination, savedVersions, serverVersions,
                   serverSaveLoading, uidCount, toast, savedPlans>>

\* what another client of the server may post: the route asks for two arrays
\* and for nothing about their elements
OtherBodies ==
    {[name |-> "Other", guests |-> Arr(<<>>), tables |-> Arr(<<nullTable>>)]}

\* app.post("/api/versions") for the request of another client
OtherClientPost(body) ==
    /\ body.guests.isArray /\ body.tables.isArray
    /\ uidCount < MaxUid
    /\ serverFiles' = Append(serverFiles,
           saveVersionFull([name |-> IF trim(body.name) = "" THEN "Unnamed version"
                                     ELSE trim(body.name),
                            guests |-> body.guests, tables |-> body.tables]))
    /\ uidCount' = uidCount + 1
    /\ Record([op |-> "otherClientPost"])
    /\ UNCHANGED <<planVars, viewVars, saveDestination, savedVersions, serverVersions,
                   serverSaveLoading, inflight, toast, savedPlans>>

\* a request that never reaches the server: fetch rejects
Disconnect(i) ==
    /\ i \in DOMAIN inflight
    /\ inflight[i].kind \in {"save", "list", "load", "delete"} /\ inflight[i].phase = "sent"
    /\ Settled(i, -1, None)
    /\ Record([op |-> "disconnect"])
    /\ UNCHANGED <<planVars, viewVars, saveDestination, savedVersions, serverVersions,
                   serverSaveLoading, serverFiles, uidCount, toast, savedPlans>>

-----------------------------------------------------------------------------
(* The page's version handlers *)

Drop1(s, i) == SubSeq(s, 1, i - 1) \o SubSeq(s, i + 1, Len(s))

\* history: what a version saved now has to bring back
planNow == [guests |-> guests, tables |-> tables, stageSize |-> stageSize, pan |-> pan]

\* the destination select of the versions panel
SetSaveDestination(d) ==
    /\ renders
    /\ d # saveDestination
    /\ saveDestination' = d
    /\ Record([op |-> "setSaveDestination"])
    /\ UNCHANGED <<planVars, viewVars, savedVersions, serverVersions, serverSaveLoading,
                   serverFiles, inflight, uidCount, toast, savedPlans>>

\* saveCurrentVersion(name), up to its first await
saveCurrentVersion(name) ==
    LET typed == trim(name)
        trimmed == IF typed # "" THEN typed
                   ELSE "Version " \o ToString(Len(serverVersions) + Len(savedVersions) + 1)
    IN  IF saveDestination = "server"
        THEN /\ Len(inflight) < MaxInflight
             /\ serverSaveLoading' = TRUE
             /\ inflight' = Append(inflight,
                    Request("save",
                            [name |-> trimmed, guests |-> Arr(guests),
                             tables |-> Arr(toJsonTables(tables)),
                             stageSize |-> Some(stageSize), pan |-> Some(pan)],
                            "", planNow))
             /\ Record([op |-> "saveCurrentVersion", to |-> "server"])
             /\ UNCHANGED <<savedVersions, uidCount, savedPlans>>
        ELSE LET version == [id |-> uid("v", 1), name |-> trimmed, savedAt |-> uidCount + 1,
                             guests |-> Arr(guests), tables |-> Arr(toJsonTables(tables)),
                             stageSize |-> Some(stageSize), pan |-> Some(pan)]
             IN  /\ uidCount < MaxUid
                 /\ savedVersions' = Slice(<<version>> \o savedVersions, 0, 20)
                 /\ uidCount' = uidCount + 1
                 /\ savedPlans' = (version.id :> planNow) @@ savedPlans
                 /\ Record([op |-> "saveCurrentVersion", to |-> "local"])
                 /\ UNCHANGED <<serverSaveLoading, inflight>>

\* the Save button, disabled while a save to the server is under way
ClickSaveVersion(name) ==
    /\ renders
    /\ ~serverSaveLoading
    /\ saveCurrentVersion(name)
    /\ UNCHANGED <<planVars, viewVars, saveDestination, serverVersions, serverFiles, toast>>

\* the Enter key in the version-name field
EnterSaveVersion(name) ==
    /\ renders
    /\ saveCurrentVersion(name)
    /\ UNCHANGED <<planVars, viewVars, saveDestination, serverVersions, serverFiles, toast>>

\* saveCurrentVersion after its POST has settled: on success it goes on to
\* fetchServerVersions, otherwise it reports the failure
SaveSettle(i) ==
    /\ renders
    /\ i \in DOMAIN inflight
    /\ inflight[i].kind = "save" /\ inflight[i].phase = "done"
    /\ IF inflight[i].status = 201
       THEN /\ inflight' = [inflight EXCEPT ![i] = Request("list", Null, "save", None)]
            /\ UNCHANGED <<toast, serverSaveLoading>>
       ELSE /\ toast' = "Failed to save"
            /\ serverSaveLoading' = FALSE
            /\ inflight' = Drop1(inflight, i)
    /\ Record([op |-> "saveSettle", status |-> inflight[i].status])
    /\ UNCHANGED <<planVars, viewVars, saveDestination, savedVersions, serverVersions,
                   serverFiles, uidCount, savedPlans>>

\* a fetchServerVersions whose caller has no finally block
ListSettleNoFinally(i) ==
    /\ renders
    /\ i \in DOMAIN inflight
    /\ inflight[i].kind = "list" /\ inflight[i].phase = "done"
    /\ serverVersions' = IF inflight[i].status = 200 THEN inflight[i].res
                         ELSE IF inflight[i].status = -1 THEN <<>>
                         ELSE serverVersions
    /\ IF inflight[i].then = "save"
       THEN toast' = "Version saved" /\ UNCHANGED serverSaveLoading
       ELSE IF inflight[i].then = "delete"
       THEN toast' = "Version deleted" /\ UNCHANGED serverSaveLoading
       ELSE UNCHANGED <<toast, serverSaveLoading>>
    /\ LET versions == IF inflight[i].status = 200 THEN inflight[i].res ELSE <<>>
       IN  IF inflight[i].then = "mount" /\ Len(versions) > 0
           THEN inflight' = [inflight EXCEPT
                                ![i] = Request("load", versions[1].id, "mount", None)]
           ELSE inflight' = Drop1(inflight, i)
    /\ Record([op |-> "listSettle", status |-> inflight[i].status])
    /\ UNCHANGED <<planVars, viewVars, saveDestination, savedVersions,
                   serverFiles, uidCount, savedPlans>>

\* fetchServerVersions after its GET has settled, and the rest of the
\* function that awaited it: saveCurrentVersion, deleteServerVersion or the
\* mount effect's loadLatestServerVersion, which goes on to fetch the newest
ListSettle(i) ==
    /\ renders
    /\ i \in DOMAIN inflight
    /\ inflight[i].kind = "list" /\ inflight[i].phase = "done"
    /\ serverVersions' = IF inflight[i].status = 200 THEN inflight[i].res
                         ELSE IF inflight[i].status = -1 THEN <<>>
                         ELSE serverVersions
    /\ IF inflight[i].then = "save"
       THEN toast' = "Version saved" /\ serverSaveLoading' = FALSE
       ELSE IF inflight[i].then = "delete"
       THEN toast' = "Version deleted" /\ UNCHANGED serverSaveLoading
       ELSE UNCHANGED <<toast, serverSaveLoading>>
    /\ LET versions == IF inflight[i].status = 200 THEN inflight[i].res ELSE <<>>
       IN  IF inflight[i].then = "mount" /\ Len(versions) > 0
           THEN inflight' = [inflight EXCEPT
                                ![i] = Request("load", versions[1].id, "mount", None)]
           ELSE inflight' = Drop1(inflight, i)
    /\ Record([op |-> "listSettle", status |-> inflight[i].status,
               hasAutoLoaded |-> (inflight[i].then = "mount"
                                      /\ (inflight[i].status # 200 \/ inflight[i].res = <<>>))])
    /\ UNCHANGED <<planVars, viewVars, saveDestination, savedVersions,
                   serverFiles, uidCount, savedPlans>>

loadIntoNothing(data) == UNCHANGED <<guests, tables, selectedTableId, stageSize, pan>>

\* what loadLocalVersion, loadServerVersion and the import do with a version
loadInto(data) ==
    LET guestsCopy == data.guests.items
        tablesCopy == fromJsonTables(data.tables.items)
    IN  /\ guests' = guestsCopy
        /\ tables' = tablesCopy
        /\ selectedTableId' = IF Len(tablesCopy) > 0 THEN tablesCopy[1].id ELSE Null
        /\ stageSize' = IF data.stageSize # None THEN data.stageSize[1]
                        ELSE calculateStageSize(tablesCopy)
        /\ pan' = IF data.pan # None THEN data.pan[1] ELSE [x |-> 0, y |-> 0]

\* calculateStageSize(tablesCopy), called when the version has no stageSize,
\* throws on a null table
applyThrows(data) ==
    /\ data.stageSize = None
    /\ \E i \in DOMAIN data.tables.items : data.tables.items[i] = nullTable

\* the setters that have run when calculateStageSize throws
loadPartly(data) ==
    LET guestsCopy == data.guests.items
        tablesCopy == fromJsonTables(data.tables.items)
    IN  /\ guests' = guestsCopy
        /\ tables' = tablesCopy
        /\ selectedTableId' = IF Len(tablesCopy) > 0 THEN tablesCopy[1].id ELSE Null
        /\ UNCHANGED <<stageSize, pan>>

\* "Load" of a local version: loadLocalVersion(v.id)
LoadLocalVersion(k) ==
    /\ renders
    /\ k \in DOMAIN savedVersions
    /\ loadInto(savedVersions[k])
    /\ Record([op |-> "loadLocalVersion", id |-> savedVersions[k].id, loaded |-> TRUE])
    /\ UNCHANGED <<activeSeat, draggedGuestId, tool, snapToGrid, panning, panStart,
                   dragging, persistVars, uidCount, toast, savedPlans>>

\* "Load" of a server version: loadServerVersion(v.id), up to its await
LoadServerVersion(k) ==
    /\ renders
    /\ k \in DOMAIN serverVersions
    /\ Len(inflight) < MaxInflight
    /\ inflight' = Append(inflight, Request("load", serverVersions[k].id, "", None))
    /\ Record([op |-> "loadServerVersion", id |-> serverVersions[k].id, loaded |-> FALSE])
    /\ UNCHANGED <<planVars, viewVars, saveDestination, savedVersions, serverVersions,
                   serverSaveLoading, serverFiles, uidCount, toast, savedPlans>>

\* loadServerVersion after its GET has settled
LoadSettle(i) ==
    /\ renders
    /\ i \in DOMAIN inflight
    /\ inflight[i].kind = "load" /\ inflight[i].phase = "done" /\ inflight[i].then = ""
    /\ IF inflight[i].status # 200
       THEN /\ toast' = "Failed to load"
            /\ UNCHANGED <<guests, tables, selectedTableId, stageSize, pan>>
       ELSE IF applyThrows(inflight[i].res[1])
       THEN /\ loadPartly(inflight[i].res[1])
            /\ toast' = "Failed to load"
       ELSE /\ loadInto(inflight[i].res[1])
            /\ toast' = "Version loaded"
    /\ inflight' = Drop1([j \in DOMAIN inflight |->
                              IF j < i /\ inflight[j].kind = "load" /\ inflight[j].then = ""
                                 /\ toast' = "Version loaded"
                              THEN [inflight[j] EXCEPT !.overtakenBy = inflight[i].req]
                              ELSE inflight[j]], i)
    /\ Record([op |-> "loadServerVersion", id |-> inflight[i].req,
               loaded |-> toast' = "Version loaded",
               overtakenBy |-> inflight[i].overtakenBy])
    /\ UNCHANGED <<activeSeat, draggedGuestId, tool, snapToGrid, panning, panStart,
                   dragging, saveDestination, savedVersions, serverVersions,
                   serverSaveLoading, serverFiles, uidCount, savedPlans>>

\* loadLatestServerVersion after its GET of the newest version has settled
AutoLoadSettle(i) ==
    /\ renders
    /\ i \in DOMAIN inflight
    /\ inflight[i].kind = "load" /\ inflight[i].phase = "done" /\ inflight[i].then = "mount"
    /\ IF inflight[i].status # 200
       THEN UNCHANGED <<guests, tables, selectedTableId, stageSize, pan, toast>>
       ELSE IF applyThrows(inflight[i].res[1])
       THEN /\ loadPartly(inflight[i].res[1])
            /\ UNCHANGED toast
       ELSE /\ loadInto(inflight[i].res[1])
            /\ toast' = "Loaded latest version"
    /\ inflight' = Drop1(inflight, i)
    /\ Record([op |-> "autoLoad", id |-> inflight[i].req,
               loaded |-> toast' = "Loaded latest version",
               status |-> inflight[i].status, version |-> inflight[i].res,
               hasAutoLoaded |-> TRUE])
    /\ UNCHANGED <<activeSeat, draggedGuestId, tool, snapToGrid, panning, panStart,
                   dragging, saveDestination, savedVersions, serverVersions,
                   serverSaveLoading, serverFiles, uidCount, savedPlans>>

\* "Delete" of a server version: deleteServerVersion(v.id), up to its await
DeleteServerVersion(k) ==
    /\ renders
    /\ k \in DOMAIN serverVersions
    /\ Len(inflight) < MaxInflight
    /\ inflight' = Append(inflight, Request("delete", serverVersions[k].id, "", None))
    /\ Record([op |-> "deleteServerVersion", id |-> serverVersions[k].id])
    /\ UNCHANGED <<planVars, viewVars, saveDestination, savedVersions, serverVersions,
                   serverSaveLoading, serverFiles, uidCount, toast, savedPlans>>

\* deleteServerVersion after its DELETE has settled: on success it goes on to
\* fetchServerVersions, otherwise it reports the failure
DeleteSettle(i) ==
    /\ renders
    /\ i \in DOMAIN inflight
    /\ inflight[i].kind = "delete" /\ inflight[i].phase = "done"
    /\ IF inflight[i].status = 204
       THEN /\ inflight' = [inflight EXCEPT ![i] = Request("list", Null, "delete", None)]
            /\ UNCHANGED toast
       ELSE /\ toast' = "Failed to delete"
            /\ inflight' = Drop1(inflight, i)
    /\ Record([op |-> "deleteSettle", status |-> inflight[i].status])
    /\ UNCHANGED <<planVars, viewVars, saveDestination, savedVersions, serverVersions,
                   serverSaveLoading, serverFiles, uidCount, savedPlans>>

-----------------------------------------------------------------------------
(* Import of a file *)

\* chairs of the table of an imported plan
ImportChairs == 1

importedGuests == <<[id |-> "g9", name |-> "Imported Guest", gender |-> "male"]>>
importedTables(n) ==
    <<[id |-> "t9", number |-> 9, shape |-> "rect", numberStyle |-> "modern",
       isVip |-> FALSE, x |-> 336, y |-> 240, rotation |-> 0,
       chairs |-> [i \in 1..n |->
                      [id |-> "t9c" \o ToString(i),
                       guestId |-> IF i = 1 THEN Some("g9") ELSE None]]]>>

\* a file: its text parses or not; the parsed value is an object or not (null,
\* a number, a string); guests and tables are arrays or not
File(parses, isObject, gs, ts, size, offset) ==
    [parses |-> parses, isObject |-> isObject, guests |-> gs, tables |-> ts,
     stageSize |-> size, pan |-> offset]

ImportFiles ==
    { File(FALSE, FALSE, NotArray, NotArray, None, None),
      File(TRUE, FALSE, NotArray, NotArray, None, None),
      File(TRUE, TRUE, NotArray, Arr(importedTables(ImportChairs)), None, None),
      File(TRUE, TRUE, Arr(importedGuests), NotArray,
           Some([w |-> 900, h |-> 700]), Some([x |-> 12, y |-> 0])),
      File(TRUE, TRUE, Arr(importedGuests), Arr(importedTables(ImportChairs)), None, None),
      File(TRUE, TRUE, Arr(<<>>), Arr(importedTables(ImportChairs + 1)),
           Some([w |-> 900, h |-> 700]), Some([x |-> 12, y |-> 0])) }

\* the import that checks guests only
importAcceptsGuestsOnly(f) == f.parses /\ f.isObject /\ f.guests.isArray

\* JSON.parse succeeds, reading data.guests does not throw, and both are arrays
importAccepts(f) == f.parses /\ f.isObject /\ f.guests.isArray /\ f.tables.isArray

\* handleImportFile: the reader starts to read the chosen file
HandleImportFile(f) ==
    /\ Len(inflight) < MaxInflight
    /\ inflight' = Append(inflight, Request("read", f, "", None))
    /\ Record([op |-> "handleImportFile"])
    /\ UNCHANGED <<planVars, viewVars, saveDestination, savedVersions, serverVersions,
                   serverSaveLoading, serverFiles, uidCount, toast, savedPlans>>

\* reader.onload
ReaderOnload(i) ==
    /\ i \in DOMAIN inflight
    /\ inflight[i].kind = "read"
    /\ LET f == inflight[i].req
       IN  /\ IF ~importAccepts(f)
              THEN /\ toast' = "Failed to import"
                   /\ UNCHANGED <<guests, tables, selectedTableId, stageSize, pan>>
              ELSE IF applyThrows(f)
              THEN /\ loadPartly(f)
                   /\ toast' = "Failed to import"
              ELSE /\ loadInto(f)
                   /\ toast' = "Version imported"
           /\ Record([op |-> "import", parses |-> f.parses,
                      arrays |-> f.parses /\ f.isObject /\ f.guests.isArray
                                     /\ f.tables.isArray,
                      file |-> f, exported |-> inflight[i].plan, panBefore |-> pan])
    /\ inflight' = Drop1(inflight, i)
    /\ UNCHANGED <<activeSeat, draggedGuestId, tool, snapToGrid, panning, panStart,
                   dragging, saveDestination, savedVersions, serverVersions,
                   serverSaveLoading, serverFiles, uidCount, savedPlans>>

\* a file of the exported guests with no tables
exportFileNoTables(version) ==
    File(TRUE, TRUE, version.guests, Arr(<<>>), version.stageSize, version.pan)

\* the file exportVersion downloads: JSON.stringify of exportData leaves
\* out stageSize and pan when the version has none; the file parses
exportFile(version) ==
    File(TRUE, TRUE, version.guests, version.tables, version.stageSize, version.pan)

\* "Export" of a local version: exportVersion(v, false)
ExportLocalVersion(k) ==
    /\ renders
    /\ k \in DOMAIN savedVersions
    /\ toast' = "Version exported"
    /\ Record([op |-> "exportVersion", file |-> exportFile(savedVersions[k]),
               version |-> savedVersions[k]])
    /\ UNCHANGED <<planVars, viewVars, persistVars, uidCount, savedPlans>>

\* "Export" of a server version: exportVersion(v, true), up to its fetch
ExportServerVersion(k) ==
    /\ renders
    /\ k \in DOMAIN serverVersions
    /\ Len(inflight) < MaxInflight
    /\ inflight' = Append(inflight, Request("load", serverVersions[k].id, "export", None))
    /\ Record([op |-> "exportStart"])
    /\ UNCHANGED <<planVars, viewVars, saveDestination, savedVersions, serverVersions,
                   serverSaveLoading, serverFiles, uidCount, toast, savedPlans>>

\* exportVersion(v, true) after its fetch
ExportSettle(i) ==
    /\ renders
    /\ i \in DOMAIN inflight
    /\ inflight[i].kind = "load" /\ inflight[i].phase = "done" /\ inflight[i].then = "export"
    /\ IF inflight[i].status = 200
       THEN /\ toast' = "Version exported"
            /\ Record([op |-> "exportVersion", file |-> exportFile(inflight[i].res[1]),
                       version |-> inflight[i].res[1]])
       ELSE /\ toast' = "Failed to export"
            /\ Record([op |-> "exportFailed"])
    /\ inflight' = Drop1(inflight, i)
    /\ UNCHANGED <<planVars, viewVars, saveDestination, savedVersions, serverVersions,
                   serverSaveLoading, serverFiles, uidCount, savedPlans>>

\* the file just exported is chosen in the import field: handleImportFile
ImportExported ==
    /\ renders
    /\ last.op = "exportVersion"
    /\ Len(inflight) < MaxInflight
    /\ inflight' = Append(inflight, Request("read", last.file, "", Some(last.version)))
    /\ Record([op |-> "handleImportFile"])
    /\ UNCHANGED <<planVars, viewVars, saveDestination, savedVersions, serverVersions,
                   serverSaveLoading, serverFiles, uidCount, toast, savedPlans>>

\* saving, exporting and importing the exported file
ExportNext ==
    \/ ClickDeleteTable
    \/ \E d \in {"server", "local"} : SetSaveDestination(d)
    \/ \E n \in {" Plan A "} : ClickSaveVersion(n)
    \/ \E i \in 1..MaxInflight : SaveSettle(i)
    \/ \E i \in 1..MaxInflight : ListSettle(i)
    \/ \E i \in 1..MaxInflight : AutoLoadSettle(i)
    \/ \E i \in 1..MaxInflight : ServerPost(i, TRUE)
    \/ \E i \in 1..MaxInflight : ServerList(i, TRUE)
    \/ \E i \in 1..MaxInflight : ServerGet(i)
    \/ \E p \in {[x |-> 0, y |-> 0]} : StagePointerDown(p)
    \/ \E p \in PointerPositions : StagePointerMove(p)
    \/ \E k \in 1..MaxUid : ExportLocalVersion(k)
    \/ \E k \in 1..MaxUid : ExportServerVersion(k)
    \/ \E i \in 1..MaxInflight : ExportSettle(i)
    \/ ImportExported
    \/ \E i \in 1..MaxInflight : ReaderOnload(i)

SpecExport == Init /\ [][ExportNext]_vars

PersistNext ==
    \/ ClickDeleteTable
    \/ \E d \in {"server", "local"} : SetSaveDestination(d)
    \/ \E n \in VersionNames : ClickSaveVersion(n)
    \/ \E n \in VersionNames : EnterSaveVersion(n)
    \/ \E i \in 1..MaxInflight : SaveSettle(i)
    \/ \E i \in 1..MaxInflight : ListSettle(i)
    \/ \E k \in 1..MaxUid : LoadLocalVersion(k)
    \/ \E k \in 1..MaxUid : LoadServerVersion(k)
    \/ \E i \in 1..MaxInflight : LoadSettle(i)
    \/ \E i \in 1..MaxInflight : AutoLoadSettle(i)
    \/ \E k \in 1..MaxUid : DeleteServerVersion(k)
    \/ \E i \in 1..MaxInflight : DeleteSettle(i)
    \/ \E i \in 1..MaxInflight, w \in BOOLEAN : ServerPost(i, w)
    \/ \E i \in 1..MaxInflight, r \in BOOLEAN : ServerList(i, r)
    \/ \E i \in 1..MaxInflight : ServerGet(i)
    \/ \E i \in 1..MaxInflight : ServerDelete(i)
    \/ \E b \in OtherBodies : OtherClientPost(b)
    \/ \E i \in 1..MaxInflight : Disconnect(i)

SpecPersist == Init /\ [][PersistNext]_vars

\* the import of files into a plan that tables are deleted from
ImportNext ==
    \/ ClickDeleteTable
    \/ \E f \in ImportFiles : HandleImportFile(f)
    \/ \E i \in 1..MaxInflight : ReaderOnload(i)

SpecImport == Init /\ [][ImportNext]_vars

-----------------------------------------------------------------------------
(* Properties *)

C3_NoDanglingReference ==
    assignedIds(tables) \subseteq guestIds(guests)

\* C8: a drop on a chair that holds a guest reference changes no chair, no
\* table and no guest; a drop of a dragged guest on a chair without a
\* reference sets that chair's reference to the guest and nothing else.
C8_DropStep ==
    \A i \in DOMAIN tables : \A j \in DOMAIN tables[i].chairs :
        (last'.op = "drop" /\ last'.tableId = tables[i].id
             /\ last'.chairId = tables[i].chairs[j].id)
        => IF tables[i].chairs[j].guestId # Undefined
           THEN tables' = tables /\ guests' = guests
           ELSE /\ guests' = guests
                /\ draggedGuestId # Null =>
                       tables' = [tables EXCEPT ![i].chairs[j].guestId = draggedGuestId]
                /\ draggedGuestId = Null => tables' = tables
C8_DropKeepsOccupant == [][C8_DropStep]_vars

\* C4: setChairsCount(tableId, n) leaves the table with n chairs when
\* 2 <= n <= 20, with 2 when n < 2 and with 20 when n > 20; every other
\* table is unchanged.
C4_Step ==
    last'.op = "setChairsCount" =>
        /\ Len(tables') = Len(tables)
        /\ \A i \in DOMAIN tables :
              IF tables[i].id = last'.tableId
              THEN Len(tables'[i].chairs) =
                       (IF last'.count < 2 THEN 2
                        ELSE IF last'.count > 20 THEN 20 ELSE last'.count)
              ELSE tables'[i] = tables[i]
C4_ChairCountClamped == [][C4_Step]_vars

\* a count below 2 was requested of one of two tables, which has 2 chairs now
C4_Witness ==
    /\ last.op = "setChairsCount"
    /\ last.count < 2
    /\ Len(tables) >= 2
    /\ \E i \in DOMAIN tables : tables[i].id = last.tableId /\ Len(tables[i].chairs) = 2

\* C6: when setChairsCount shrinks a table from m to k < m chairs, the chairs
\* left are the first k of before, ids and guests in order; the guest list is
\* unchanged, and a guest referred to by removed chairs only is unassigned.
C6_Step ==
    last'.op = "setChairsCount" =>
        \A i \in DOMAIN tables :
            (tables[i].id = last'.tableId /\ Len(tables'[i].chairs) < Len(tables[i].chairs))
            => LET k == Len(tables'[i].chairs)
                   removed == {tables[i].chairs[j].guestId :
                                   j \in (k + 1)..Len(tables[i].chairs)}
                   kept == UNION {{tables[a].chairs[b].guestId :
                                       b \in {c \in DOMAIN tables[a].chairs : a # i \/ c <= k}} :
                                  a \in DOMAIN tables}
               IN  /\ tables'[i].chairs = SubSeq(tables[i].chairs, 1, k)
                   /\ guests' = guests
                   /\ \A n \in DOMAIN guests :
                         (guests[n].id \in removed \ kept)
                         => \E u \in DOMAIN unassignedOf(guests', tables') :
                                unassignedOf(guests', tables')[u] = guests[n]
C6_ShrinkKeepsPrefix == [][C6_Step]_vars

\* a shrink has removed a chair that held a guest, who is now unassigned
C6_Witness ==
    /\ last.op = "setChairsCount"
    /\ \E n \in DOMAIN unassignedGuests : unassignedGuests[n].id \in last.lost

\* C7: removeGuest(G) takes G out of the guest list and out of every chair,
\* and changes nothing else: the other guests in order, the tables in order,
\* their chairs and the other chairs' guest references.
C7_Step ==
    last'.op = "removeGuest" =>
        LET G == last'.guestId
        IN  /\ G \notin guestIds(guests')
            /\ holders(tables', G) = {}
            /\ guests' = SelectSeq(guests, LAMBDA g : g.id # G)
            /\ Len(tables') = Len(tables)
            /\ \A i \in DOMAIN tables :
                  /\ [tables'[i] EXCEPT !.chairs = <<>>] = [tables[i] EXCEPT !.chairs = <<>>]
                  /\ Len(tables'[i].chairs) = Len(tables[i].chairs)
                  /\ \A j \in DOMAIN tables[i].chairs :
                        /\ tables'[i].chairs[j].id = tables[i].chairs[j].id
                        /\ tables[i].chairs[j].guestId # G =>
                               tables'[i].chairs[j].guestId = tables[i].chairs[j].guestId
C7_RemoveGuest == [][C7_Step]_vars

\* a guest who held several chairs (after a duplication) has been removed
C7_Witness ==
    /\ last.op = "removeGuest"
    /\ last.seats >= 2
    /\ Len(tables) >= 2
    /\ last.guestId \notin guestIds(guests)

\* C5: every table of the plan has between 2 and 20 chairs, also after a
\* version has been loaded or a file imported.
C5_ChairCountInRange ==
    \A i \in DOMAIN tables : Len(tables[i].chairs) \in 2..20

\* C9: once a saved version has been loaded, from the server or from local
\* storage, guests, tables, stage size and pan are what they were when the
\* version was saved.
C9_LoadRestoresSave ==
    (last.op \in {"loadLocalVersion", "loadServerVersion"} /\ last.loaded
         /\ last.id \in DOMAIN savedPlans)
        => /\ guests = savedPlans[last.id].guests
           /\ tables = savedPlans[last.id].tables
           /\ stageSize = savedPlans[last.id].stageSize
           /\ pan = savedPlans[last.id].pan

\* C10: the import of a file that is not valid JSON, or whose guests or
\* tables is not an array, reports "Failed to import" and leaves guests,
\* tables, selected table, stage size and pan as they were.
C10_Step ==
    (last'.op = "import" /\ ~last'.arrays)
        => /\ toast' = "Failed to import"
           /\ guests' = guests
           /\ tables' = tables
           /\ selectedTableId' = selectedTableId
           /\ stageSize' = stageSize
           /\ pan' = pan
C10_ImportRejected == [][C10_Step]_vars

\* a file with guests but without a tables array has been refused, after the
\* plan had been changed from the initial one
C10_Witness ==
    /\ last.op = "import"
    /\ last.parses
    /\ ~last.arrays
    /\ toast = "Failed to import"
    /\ tables # defaultTables

\* C12: at most one POST /api/versions of the page is in flight at any time.
C12_SingleSaveInFlight ==
    Cardinality({i \in DOMAIN inflight :
                    inflight[i].kind = "save" /\ inflight[i].phase = "sent"}) <= 1

\* C11: a server save, load or delete that fails (a status that is not OK,
\* a network error, a body that cannot be applied) leaves guests, tables,
\* selected table, stage size and pan as they were.
C11_Step ==
    (\/ last'.op = "saveSettle" /\ last'.status # 201
     \/ last'.op = "deleteSettle" /\ last'.status # 204
     \/ last'.op = "loadServerVersion" /\ toast' = "Failed to load")
        => /\ guests' = guests
           /\ tables' = tables
           /\ selectedTableId' = selectedTableId
           /\ stageSize' = stageSize
           /\ pan' = pan
C11_FailureKeepsPlan == [][C11_Step]_vars

\* C13: while a table drag or a pan gesture is active, a further
\* pointer-down on the stage or on a table starts no gesture: the drag target,
\* the recorded start positions and the selected table stay as they are.
C13_Step ==
    (last'.op \in {"stagePointerDown", "tablePointerDown"}
        /\ (panning \/ dragging # None))
        => /\ dragging' = dragging
           /\ panStart' = panStart
           /\ panning' = panning
           /\ selectedTableId' = selectedTableId
C13_SecondPointerDownIgnored == [][C13_Step]_vars

\* C14: panning and an active table drag are never both set.
C14_PanOrDrag == ~(panning /\ dragging # None)

\* C15: duplicateTable(id) with an id of no table changes nothing; otherwise
\* it appends one table with a fresh id, number nextTableNumber, position
\* (snap(x+40), snap(y+40)), the source's shape, number style, VIP flag,
\* rotation and chair count, chair i holding the guest of the source's chair i
\* (every guest seated at the source is then held by two chairs); the source
\* is unchanged and the copy is selected.
C15_Step ==
    last'.op = "duplicateTable" =>
        LET at == {i \in DOMAIN tables : tables[i].id = last'.tableId}
        IN  /\ guests' = guests
            /\ IF at = {}
               THEN tables' = tables /\ selectedTableId' = selectedTableId
               ELSE LET src == tables[CHOOSE i \in at : \A j \in at : i <= j]
                        n == Len(tables) + 1
                    IN  /\ Len(tables') = n
                        /\ \A i \in DOMAIN tables : tables'[i] = tables[i]
                        /\ \A i \in DOMAIN tables : tables'[n].id # tables[i].id
                        /\ tables'[n].number = nextTableNumber
                        /\ tables'[n].x = snap(src.x + 40)
                        /\ tables'[n].y = snap(src.y + 40)
                        /\ tables'[n].shape = src.shape
                        /\ tables'[n].numberStyle = src.numberStyle
                        /\ tables'[n].isVip = src.isVip
                        /\ tables'[n].rotation = src.rotation
                        /\ Len(tables'[n].chairs) = Len(src.chairs)
                        /\ \A j \in DOMAIN src.chairs :
                               tables'[n].chairs[j].guestId = src.chairs[j].guestId
                        /\ \A j \in DOMAIN src.chairs :
                               src.chairs[j].guestId # Undefined =>
                                   Cardinality(holders(tables', src.chairs[j].guestId)) >= 2
                        /\ selectedTableId' = tables'[n].id
C15_DuplicateTable == [][C15_Step]_vars

\* a table has just been duplicated and a guest sits at the source and the copy
C15_Witness ==
    /\ last.op = "duplicateTable"
    /\ Len(tables) >= 2
    /\ tables[Len(tables)].id = selectedTableId
    /\ \E i \in DOMAIN tables :
        /\ tables[i].id = last.tableId
        /\ \E j \in DOMAIN tables[i].chairs :
            /\ tables[i].chairs[j].guestId # Undefined
            /\ tables[Len(tables)].chairs[j].guestId = tables[i].chairs[j].guestId

\* C16: after deleteTable(id), from the delete button or the Delete key, no
\* table with that id remains; the guest list is unchanged; every other
\* table is unchanged and in the same order; the selection is cleared if it
\* was id and kept otherwise; guests seated only at the deleted table are in
\* unassignedGuests.
C16_Step ==
    last'.op = "deleteTable" =>
        LET id == last'.tableId
            keep == {i \in DOMAIN tables : tables[i].id # id}
        IN  /\ \A i \in DOMAIN tables' : tables'[i].id # id
            /\ guests' = guests
            /\ Len(tables') = Cardinality(keep)
            /\ \A i \in keep : tables'[Cardinality({j \in keep : j <= i})] = tables[i]
            /\ selectedTableId' = IF selectedTableId = id THEN Null ELSE selectedTableId
            /\ \A g \in DOMAIN guests :
                   (/\ holders(tables, guests[g].id) # {}
                    /\ \A h \in holders(tables, guests[g].id) : h[1] = id)
                       => \E k \in DOMAIN unassignedGuests' : unassignedGuests'[k] = guests[g]
C16_DeleteTable == [][C16_Step]_vars

\* the Delete key has just removed the selected one of two tables, and a
\* guest who sat only there is unassigned
C16_Witness ==
    /\ last.op = "deleteTable"
    /\ "key" \in DOMAIN last
    /\ last.key
    /\ last.freed # {}
    /\ selectedTableId = Null
    /\ Len(tables) >= 1
    /\ \A i \in DOMAIN tables : tables[i].id # last.tableId

\* C18: nextTableNumber is 1 + the maximum table number, and 1 when there
\* are no tables, whatever numbers the number field has given the tables.
C18_NextTableNumber ==
    nextTableNumber =
        IF tables = <<>> THEN 1
        ELSE 1 + (CHOOSE m \in {tables[i].number : i \in DOMAIN tables} :
                      \A i \in DOMAIN tables : tables[i].number <= m)

\* C17: addTable(shape) appends one table with a fresh id, number 1 + the
\* maximum table number, rotation 0, 8 empty chairs and style classic for
\* round, 12 empty chairs and style modern for rect, position
\* (snap(stageW/2 - pan.x), snap(stageH/2 - pan.y)), and selects it; the
\* existing tables and the guests are unchanged.
C17_Step ==
    last'.op = "addTable" =>
        LET n == Len(tables) + 1
            shape == last'.shape
        IN  /\ guests' = guests
            /\ Len(tables') = n
            /\ \A i \in DOMAIN tables : tables'[i] = tables[i]
            /\ \A i \in DOMAIN tables : tables'[n].id # tables[i].id
            /\ tables'[n].number =
                   IF tables = <<>> THEN 1
                   ELSE 1 + (CHOOSE m \in {tables[i].number : i \in DOMAIN tables} :
                                 \A i \in DOMAIN tables : tables[i].number <= m)
            /\ tables'[n].shape = shape
            /\ tables'[n].rotation = 0
            /\ Len(tables'[n].chairs) = IF shape = "round" THEN 8 ELSE 12
            /\ \A j \in DOMAIN tables'[n].chairs : tables'[n].chairs[j].guestId = Undefined
            /\ tables'[n].numberStyle = IF shape = "round" THEN "classic" ELSE "modern"
            /\ tables'[n].x = snap((stageSize.w - 2 * pan.x) \div 2)
            /\ tables'[n].y = snap((stageSize.h - 2 * pan.y) \div 2)
            /\ selectedTableId' = tables'[n].id
C17_AddTable == [][C17_Step]_vars

\* C19: unassignedGuests is the sub-sequence of the guest list, in its
\* order, of the guests no chair refers to; every guest is in unassignedGuests
\* or referred to by a chair, never both.
C19_UnassignedGuests ==
    LET free == {i \in DOMAIN guests :
                    \A t \in DOMAIN tables : \A c \in DOMAIN tables[t].chairs :
                        tables[t].chairs[c].guestId # guests[i].id}
    IN  /\ Len(unassignedGuests) = Cardinality(free)
        /\ \A i \in free : unassignedGuests[Cardinality({j \in free : j <= i})] = guests[i]
        /\ \A i \in DOMAIN guests :
               (\E k \in DOMAIN unassignedGuests : unassignedGuests[k] = guests[i])
                   <=> holders(tables, guests[i].id) = {}

\* the second guest of the list has just been seated through the popover,
\* and the first guest is the only unassigned one
C19_Witness ==
    /\ last.op = "popoverAssign"
    /\ Len(guests) = 2
    /\ last.guestId = guests[2].id
    /\ unassignedGuests = <<guests[1]>>

\* C20: guestsByTable lists every table once, in ascending order of number,
\* each with one seat per chair in chair order, seatNumber being the chair
\* index + 1; a seat's guest is the guest whose id is the chair's guestId, and
\* the seat is empty when the chair has no guestId or no guest has that id.
C20_GuestsByTable ==
    /\ Len(guestsByTable) = Len(tables)
    /\ \A i \in DOMAIN tables :
           Cardinality({k \in DOMAIN guestsByTable :
                           guestsByTable[k].tableId = tables[i].id}) = 1
    /\ \A k, l \in DOMAIN guestsByTable :
           k < l => guestsByTable[k].tableNumber <= guestsByTable[l].tableNumber
    /\ \A k \in DOMAIN guestsByTable : \A i \in DOMAIN tables :
           tables[i].id = guestsByTable[k].tableId =>
               LET row == guestsByTable[k]
                   chairs == tables[i].chairs
               IN  /\ row.tableNumber = tables[i].number
                   /\ Len(row.seats) = Len(chairs)
                   /\ \A j \in DOMAIN chairs :
                          LET who == {g \in DOMAIN guests : guests[g].id = chairs[j].guestId}
                          IN  /\ row.seats[j].chairId = chairs[j].id
                              /\ row.seats[j].seatNumber = j
                              /\ (chairs[j].guestId = Undefined \/ who = {})
                                     => row.seats[j].guest = None
                              /\ (chairs[j].guestId # Undefined /\ who # {})
                                     => /\ row.seats[j].guest # None
                                        /\ row.seats[j].guest[1].id = chairs[j].guestId
                                        /\ \E g \in who : row.seats[j].guest[1] = guests[g]

\* the second table of the plan has the smaller number and is listed first,
\* and a chair refers to a guest who is no longer in the guest list
C20_Witness ==
    /\ Len(tables) = 2
    /\ tables[1].number > tables[2].number
    /\ guestsByTable[1].tableId = tables[2].id
    /\ \E i \in DOMAIN tables : \E j \in DOMAIN tables[i].chairs :
           /\ tables[i].chairs[j].guestId # Undefined
           /\ tables[i].chairs[j].guestId \notin guestIds(guests)

RECURSIVE C21_ChairsBefore(_, _)
\* the number of chairs of the tables listed before place k of ts
C21_ChairsBefore(ts, k) ==
    IF k <= 1 THEN 0 ELSE Len(ts[k - 1].chairs) + C21_ChairsBefore(ts, k - 1)

\* C21: after the header the CSV export holds one row per chair of every
\* table, tables in ascending number order and seats in chair order, guest
\* columns empty for an empty seat, then one row per unassigned guest with
\* empty table, VIP and seat columns; the data rows number the chairs plus
\* the unassigned guests.
C21_CsvRows ==
    last.op = "exportToCsv" =>
        LET data == Tail(last.rows)
            ts == sortByNumber(tables)
            chairsTotal == C21_ChairsBefore(ts, Len(ts) + 1)
            free == {i \in DOMAIN guests : holders(tables, guests[i].id) = {}}
        IN  /\ Len(last.rows) >= 1
            /\ Len(data) = chairsTotal + Cardinality(free)
            /\ \A k \in DOMAIN ts : \A j \in DOMAIN ts[k].chairs :
                   LET row == data[C21_ChairsBefore(ts, k) + j]
                       who == {g \in DOMAIN guests : guests[g].id = ts[k].chairs[j].guestId}
                   IN  /\ row[1] = ToString(ts[k].number)
                       /\ row[2] = IF ts[k].isVip THEN "Yes" ELSE ""
                       /\ row[3] = ToString(j)
                       /\ who = {} => row[4] = "" /\ row[5] = ""
                       /\ who # {} => \E g \in who :
                              /\ row[4] = escapeCsvCell(guests[g].name)
                              /\ row[5] = guests[g].gender
            /\ \A i \in free :
                   LET row == data[chairsTotal + Cardinality({j \in free : j <= i})]
                   IN  /\ row[1] = "" /\ row[2] = "" /\ row[3] = ""
                       /\ row[4] = escapeCsvCell(guests[i].name)
                       /\ row[5] = guests[i].gender

\* the export has just run on a plan with a seated guest, an empty seat and
\* an unassigned guest whose name needs quoting
C21_Witness ==
    /\ last.op = "exportToCsv"
    /\ Len(unassignedGuests) >= 1
    /\ \E i \in DOMAIN tables : \E j \in DOMAIN tables[i].chairs :
           tables[i].chairs[j].guestId \in guestIds(guests)
    /\ \E r \in DOMAIN last.rows : last.rows[r][1] # "" /\ last.rows[r][4] = ""
    /\ last.rows[Len(last.rows)][1] = ""
    /\ last.rows[Len(last.rows)][4] # unassignedGuests[Len(unassignedGuests)].name

\* C22: during a table drag every pointer-move puts the dragged table at
\* (snap(x0 + dx), snap(y0 + dy)), (x0, y0) being the table position recorded
\* at pointer-down and (dx, dy) the pointer displacement since then: with
\* snapping on, the multiples of 24 nearest to x0 + dx and y0 + dy; with
\* snapping off, x0 + dx and y0 + dy; no other table and no other field of
\* the dragged table changes.
C22_Step ==
    (last'.op = "stagePointerMove" /\ dragging # None) =>
        LET d == dragging[1]
            nx == d.tableX + (last'.p.x - d.startX)
            ny == d.tableY + (last'.p.y - d.startY)
        IN  /\ Len(tables') = Len(tables)
            /\ \A i \in DOMAIN tables :
                   IF tables[i].id # d.tableId THEN tables'[i] = tables[i]
                   ELSE /\ tables'[i] = [tables[i] EXCEPT !.x = tables'[i].x,
                                                          !.y = tables'[i].y]
                        /\ IF snapToGrid
                           THEN /\ tables'[i].x % 24 = 0
                                /\ tables'[i].y % 24 = 0
                                /\ tables'[i].x - 12 <= nx /\ nx < tables'[i].x + 12
                                /\ tables'[i].y - 12 <= ny /\ ny < tables'[i].y + 12
                           ELSE tables'[i].x = nx /\ tables'[i].y = ny
C22_DragMovesTable == [][C22_Step]_vars

\* a pointer-move of a drag has just put the table of the drag, against its
\* recorded position, on a multiple of 24 to the left
C22_Witness ==
    /\ last.op = "stagePointerMove"
    /\ dragging # None
    /\ snapToGrid
    /\ \E i \in DOMAIN tables :
        /\ tables[i].id = dragging[1].tableId
        /\ tables[i].x < dragging[1].tableX
        /\ tables[i].x % 24 = 0
        /\ dragging[1].tableX % 24 # 0

\* C23: in pan mode, between a pointer-down on the stage and the pointer-up,
\* every pointer-move sets pan to the pan at pointer-down plus the pointer
\* displacement since pointer-down; while the tool is pan no pointer event on
\* the stage changes the position of a table.
C23_Step ==
    /\ (last'.op = "stagePointerMove" /\ tool = "pan" /\ panning /\ panStart # None)
           => /\ pan'.x = panStart[1].px + (last'.p.x - panStart[1].x)
              /\ pan'.y = panStart[1].py + (last'.p.y - panStart[1].y)
    /\ (last'.op \in {"stagePointerDown", "tablePointerDown", "stagePointerMove",
                      "stagePointerUp"} /\ tool = "pan")
           => /\ Len(tables') = Len(tables)
              /\ \A i \in DOMAIN tables :
                     tables'[i].x = tables[i].x /\ tables'[i].y = tables[i].y
C23_PanKeepsTables == [][C23_Step]_vars

\* C24: a click on a chair marker leaves that chair's popover the open one
\* (activeSeat is that table and chair) and selects the chair's table; the
\* Escape key sets activeSeat to none and changes nothing else.
C24_Step ==
    /\ last'.op = "clickSeat"
           => /\ activeSeat' = Some([tableId |-> last'.tableId, chairId |-> last'.chairId])
              /\ selectedTableId' = last'.tableId
    /\ last'.op = "keyEscape"
           => /\ activeSeat' = None
              /\ tables' = tables /\ guests' = guests
              /\ selectedTableId' = selectedTableId
C24_ClickOpensEscapeCloses == [][C24_Step]_vars

\* C25: importing the file an export has written gives a guest list and a
\* table list equal to the exported version's, with or without stageSize and
\* pan in the file; when they are absent the import sets pan to (0, 0) and
\* the stage size to the one computed from the imported tables.
C25_Step ==
    (last'.op = "import" /\ last'.exported # None) =>
        LET version == last'.exported[1]
        IN  /\ guests' = version.guests.items
            /\ toJsonTables(tables') = version.tables.items
            /\ last'.file.pan = None => pan' = [x |-> 0, y |-> 0]
            /\ last'.file.stageSize = None => stageSize' = calculateStageSize(tables')
C25_ExportImportRoundTrip == [][C25_Step]_vars

\* the file of a version saved on the server, without stageSize and pan, has
\* just been imported into a plan that had been panned
C25_Witness ==
    /\ last.op = "import"
    /\ last.exported # None
    /\ last.file.stageSize = None
    /\ last.file.pan = None
    /\ toast = "Version imported"
    /\ Len(tables) >= 1
    /\ pan = [x |-> 0, y |-> 0]
    /\ last.panBefore # pan

-----------------------------------------------------------------------------
(* The API on its own: any client's requests to /api/versions              *)

\* versions written by the requests of this section
MaxVersions == 3

\* app.post("/api/versions") with any body; the write succeeds ("ok"), fails
\* before the file exists ("refused") or fails part-way ("partial"); readdir
\* gives the files in no particular order, so the new file takes any place
ApiPost(body, storage, pos) ==
    /\ pos \in 0..Len(serverFiles)
    /\ IF ~body.guests.isArray \/ ~body.tables.isArray
       THEN /\ Record([op |-> "apiPost", body |-> body, storage |-> storage,
                       status |-> 400, res |-> None])
            /\ UNCHANGED <<serverFiles, uidCount, savedPlans>>
       ELSE IF storage = "refused"
       THEN /\ Record([op |-> "apiPost", body |-> body, storage |-> storage,
                       status |-> 500, res |-> None])
            /\ UNCHANGED <<serverFiles, uidCount, savedPlans>>
       ELSE LET name == IF trim(body.name) = "" THEN "Unnamed version" ELSE trim(body.name)
                full == saveVersionFull([name |-> name, guests |-> body.guests,
                                         tables |-> body.tables])
                file == IF storage = "ok" THEN full ELSE unparsable(full.id)
            IN  /\ uidCount < MaxVersions
                /\ serverFiles' = SubSeq(serverFiles, 1, pos) \o <<file>>
                                  \o SubSeq(serverFiles, pos + 1, Len(serverFiles))
                /\ uidCount' = uidCount + 1
                /\ IF storage = "ok"
                   THEN /\ savedPlans' = (full.id :> body) @@ savedPlans
                        /\ Record([op |-> "apiPost", body |-> body, storage |-> storage,
                                   status |-> 201, res |-> Some(toMeta(full))])
                   ELSE /\ UNCHANGED savedPlans
                        /\ Record([op |-> "apiPost", body |-> body, storage |-> storage,
                                   status |-> 500, res |-> None])
    /\ UNCHANGED <<planVars, viewVars, saveDestination, savedVersions, serverVersions,
                   serverSaveLoading, inflight, toast>>

\* app.get("/api/versions"): 500 when ensureDir or readdir throws
ApiList(readable) ==
    /\ IF readable
       THEN Record([op |-> "apiList", readable |-> TRUE, status |-> 200,
                    res |-> listVersions])
       ELSE Record([op |-> "apiList", readable |-> FALSE, status |-> 500, res |-> <<>>])
    /\ UNCHANGED <<planVars, viewVars, persistVars, uidCount, toast, savedPlans>>

\* app.get("/api/versions/:id"); lookup tells whether a path was built
ApiGet(id) ==
    /\ Record([op |-> "apiGet", id |-> id, lookup |-> isValidId(id),
               status |-> IF getVersion(id) = None THEN 404 ELSE 200,
               res |-> getVersion(id)])
    /\ UNCHANGED <<planVars, viewVars, persistVars, uidCount, toast, savedPlans>>

\* app.delete("/api/versions/:id"): deleteVersion(id) is false for an invalid
\* id and when unlink throws (no such file, or a file that cannot be removed)
ApiDelete(id, removable) ==
    /\ LET ok == /\ isValidId(id)
                 /\ Found(serverFiles, LAMBDA f : f.id = id)
                 /\ removable
       IN  /\ serverFiles' = IF ok THEN Filter(serverFiles, LAMBDA f : f.id # id)
                             ELSE serverFiles
           /\ savedPlans' = IF ok
                            THEN [v \in DOMAIN savedPlans \ {id} |-> savedPlans[v]]
                            ELSE savedPlans
           /\ Record([op |-> "apiDelete", id |-> id, lookup |-> isValidId(id),
                      status |-> IF ok THEN 204 ELSE 404, res |-> None])
    /\ UNCHANGED <<planVars, viewVars, saveDestination, savedVersions, serverVersions,
                   serverSaveLoading, inflight, uidCount, toast>>

\* bodies a client may post and identifiers it may ask for: stored ones, a
\* well-formed one that was never given out, and a malformed one
ServerNext ==
    \/ \E body \in {[name |-> " Plan A ", guests |-> Arr(guests),
                     tables |-> Arr(toJsonTables(tables))],
                    [name |-> "   ", guests |-> Arr(<<>>), tables |-> Arr(<<>>)],
                    [name |-> "B", guests |-> NotArray, tables |-> Arr(<<>>)],
                    [name |-> "B", guests |-> Arr(<<>>), tables |-> NotArray]},
          storage \in {"ok", "refused", "partial"},
          pos \in 0..MaxVersions : ApiPost(body, storage, pos)
    \/ \E readable \in BOOLEAN : ApiList(readable)
    \/ \E id \in {"uuid-1", "uuid-2", "uuid-9", "../secret"} : ApiGet(id)
    \/ \E id \in {"uuid-1", "uuid-2", "uuid-9", "../secret"},
          removable \in BOOLEAN : ApiDelete(id, removable)

SpecServer == Init /\ [][ServerNext]_vars

\* C26: POST /api/versions with a body whose guests or tables is not an array
\* answers 400 and leaves the stored versions as they were; with two arrays
\* and a working store it stores exactly one new version, every other file
\* staying as it was, and answers 201 with the {id, name, savedAt} of that
\* version; with two arrays and a failing store it answers 500.
C26_Step ==
    (last'.op = "apiPost") =>
        LET body == last'.body
            arrays == body.guests.isArray /\ body.tables.isArray
        IN  /\ ~arrays => (last'.status = 400 /\ serverFiles' = serverFiles)
            /\ (arrays /\ last'.storage = "ok") =>
                   /\ last'.status = 201
                   /\ Len(serverFiles') = Len(serverFiles) + 1
                   /\ \E k \in DOMAIN serverFiles' :
                          /\ Drop1(serverFiles', k) = serverFiles
                          /\ jsonParses(serverFiles'[k])
                          /\ \A i \in DOMAIN serverFiles : serverFiles[i].id # serverFiles'[k].id
                          /\ serverFiles'[k].guests = body.guests
                          /\ serverFiles'[k].tables = body.tables
                          /\ last'.res = Some([id |-> serverFiles'[k].id,
                                               name |-> serverFiles'[k].name,
                                               savedAt |-> serverFiles'[k].savedAt])
            /\ (arrays /\ last'.storage # "ok") => last'.status = 500
C26_PostStatuses == [][C26_Step]_vars

\* a second version has just been stored with 201 next to an earlier file
C26_Witness ==
    /\ last.op = "apiPost"
    /\ last.status = 201
    /\ Len(serverFiles) = 2
    /\ last.res[1].id = "uuid-2"

\* C27: GET and DELETE of /api/versions/:id never answer 500; when the id is
\* malformed or no stored file has it they answer 404 and leave the stored
\* files as they were; for a malformed id no file path is built.
C27_Step ==
    (last'.op \in {"apiGet", "apiDelete"}) =>
        LET id == last'.id
            malformed == id = "../secret"
            unknown == \A i \in DOMAIN serverFiles : serverFiles[i].id # id
        IN  /\ last'.status # 500
            /\ (malformed \/ unknown) => (last'.status = 404 /\ serverFiles' = serverFiles)
            /\ malformed => ~last'.lookup
C27_NotFound == [][C27_Step]_vars

\* DELETE with a malformed id has just answered 404 while versions are stored
C27_Witness ==
    /\ last.op = "apiDelete"
    /\ last.id = "../secret"
    /\ last.status = 404
    /\ ~last.lookup
    /\ Len(serverFiles) = 2

\* what GET /api/versions/:id returns for a version posted with 201 and not
\* deleted since: a document with the posted guests and tables
C28_Returned(id) ==
    /\ getVersion(id) # None
    /\ getVersion(id)[1].id = id
    /\ getVersion(id)[1].guests = savedPlans[id].guests
    /\ getVersion(id)[1].tables = savedPlans[id].tables

\* after DELETE has answered 204, GET of that id answers 404, the listing has
\* no entry for it, and every other stored file is as it was
C28_DeleteStep ==
    (last'.op = "apiDelete" /\ last'.status = 204) =>
        \A id \in {last'.id} :
            /\ getVersion(id)' = None
            /\ \A i \in DOMAIN listVersions' : listVersions'[i].id # id
            /\ serverFiles' = Filter(serverFiles, LAMBDA f : f.id # id)
            /\ \A v \in DOMAIN savedPlans \ {id} : getVersion(v)' = getVersion(v)

\* C28 (as stated): a version stored by a successful POST is returned by GET
\* of the id of the 201 response with the name, guests and tables that were
\* posted, in every state until a DELETE of that id succeeds; after DELETE
\* has answered 204, GET of that id answers 404 and the listing no longer
\* has it; other stored versions are unaffected.
C28_PostedUntilDeleted ==
    /\ [](\A id \in DOMAIN savedPlans :
              C28_Returned(id) /\ getVersion(id)[1].name = savedPlans[id].name)
    /\ [][C28_DeleteStep]_vars

\* C28 (amended): the same, with the name the 201 response gave: the posted
\* name without its surrounding white space, or "Unnamed version" when
\* nothing is left of it.
C28_StoredUntilDeleted ==
    /\ [](\A id \in DOMAIN savedPlans :
              /\ C28_Returned(id)
              /\ getVersion(id)[1].name =
                     IF trim(savedPlans[id].name) = "" THEN "Unnamed version"
                     ELSE trim(savedPlans[id].name))
    /\ [][C28_DeleteStep]_vars

\* one version has just been deleted with 204 while another, posted with
\* white space around its name, is still returned under the trimmed name
C28_Witness ==
    /\ last.op = "apiDelete"
    /\ last.status = 204
    /\ getVersion(last.id) = None
    /\ \E id \in DOMAIN savedPlans :
           /\ savedPlans[id].name = " Plan A "
           /\ getVersion(id) # None
           /\ getVersion(id)[1].name = "Plan A"
           /\ getVersion(id)[1].guests.items # <<>>

\* C29: GET /api/versions, whenever the directory can be read, answers 200
\* with exactly one {id, name, savedAt} entry for every stored file that
\* parses, no entry for a file that does not parse, the entries ordered by
\* savedAt descending; a file that does not parse never makes it fail.
C29_Step ==
    (last'.op = "apiList" /\ last'.readable) =>
        LET res == last'.res
            parsed == {i \in DOMAIN serverFiles : jsonParses(serverFiles[i])}
        IN  /\ last'.status = 200
            /\ Len(res) = Cardinality(parsed)
            /\ \A i \in parsed :
                   \E k \in DOMAIN res :
                       res[k] = [id |-> serverFiles[i].id, name |-> serverFiles[i].name,
                                 savedAt |-> serverFiles[i].savedAt]
            /\ \A i \in DOMAIN serverFiles \ parsed :
                   \A k \in DOMAIN res : res[k].id # serverFiles[i].id
            /\ \A j, k \in DOMAIN res : j < k => res[j].savedAt >= res[k].savedAt
C29_ListNewestFirst == [][C29_Step]_vars

\* a directory whose first file is the oldest version and which holds a file
\* that does not parse has just been listed: two entries, the newest first
C29_Witness ==
    /\ last.op = "apiList"
    /\ last.status = 200
    /\ Len(last.res) = 2
    /\ Len(serverFiles) = 3
    /\ jsonParses(serverFiles[1])
    /\ serverFiles[1].id = last.res[2].id
    /\ \E i \in DOMAIN serverFiles : ~jsonParses(serverFiles[i])

-----------------------------------------------------------------------------
(* The local version list on its own                                       *)

\* versions saved locally by the actions of this section
MaxLocalSaves == 22
\* a local version is deleted only while fewer than MaxLocalGone of the saved
\* versions have left the list
MaxLocalGone == 3

\* the Save button with the local destination: saveCurrentVersion, lines 616-627
ClickSaveLocal(name) ==
    /\ renders
    /\ saveDestination = "local"
    /\ uidCount < MaxLocalSaves
    /\ LET typed == trim(name)
           trimmed == IF typed # "" THEN typed
                      ELSE "Version " \o ToString(Len(serverVersions) + Len(savedVersions) + 1)
           version == [id |-> uid("v", 1), name |-> trimmed, savedAt |-> uidCount + 1,
                       guests |-> Arr(guests), tables |-> Arr(toJsonTables(tables)),
                       stageSize |-> Some(stageSize), pan |-> Some(pan)]
       IN  /\ savedVersions' = Slice(<<version>> \o savedVersions, 0, 20)
           /\ Record([op |-> "saveLocal", id |-> version.id,
                      full |-> Len(savedVersions) = 20])
    /\ uidCount' = uidCount + 1
    /\ UNCHANGED <<planVars, viewVars, saveDestination, serverVersions, serverSaveLoading,
                   serverFiles, inflight, toast, savedPlans>>

\* the delete button of the k-th local version: deleteLocalVersion(v.id)
ClickDeleteLocalVersion(k) ==
    /\ renders
    /\ k \in DOMAIN savedVersions
    /\ uidCount - Len(savedVersions) < MaxLocalGone
    /\ savedVersions' = Filter(savedVersions, LAMBDA x : x.id # savedVersions[k].id)
    /\ Record([op |-> "deleteLocalVersion", id |-> savedVersions[k].id])
    /\ UNCHANGED <<planVars, viewVars, saveDestination, serverVersions, serverSaveLoading,
                   serverFiles, inflight, uidCount, toast, savedPlans>>

\* any version of the list may be deleted
LocalNext ==
    \/ \E d \in {"server", "local"} : SetSaveDestination(d)
    \/ ClickSaveLocal(" Plan A ")
    \/ \E k \in 1..20 : ClickDeleteLocalVersion(k)

SpecLocal == Init /\ [][LocalNext]_vars

\* C30: the local version list never holds more than 20 versions and is
\* ordered newest save first; a local save puts the new version first and
\* keeps the earlier ones in their order, dropping the oldest when there were
\* 20 already; a local delete removes the version of that id and no other.
C30_Step ==
    /\ (last'.op = "saveLocal") =>
           /\ savedVersions'[1].id = last'.id
           /\ Tail(savedVersions') =
                  IF Len(savedVersions) = 20 THEN SubSeq(savedVersions, 1, 19)
                  ELSE savedVersions
    /\ (last'.op = "deleteLocalVersion") =>
           \E k \in DOMAIN savedVersions :
               /\ savedVersions[k].id = last'.id
               /\ savedVersions' = Drop1(savedVersions, k)
               /\ \A i \in DOMAIN savedVersions' : savedVersions'[i].id # last'.id
C30_LocalListBounded ==
    /\ [](/\ Len(savedVersions) <= 20
          /\ \A j, k \in DOMAIN savedVersions :
                 j < k => savedVersions[j].savedAt > savedVersions[k].savedAt)
    /\ [][C30_Step]_vars

\* a save has just been made onto a list of 20: 20 versions are kept, the
\* new one first, and the first version ever saved is not among them
C30_Witness ==
    /\ last.op = "saveLocal"
    /\ Len(savedVersions) = 20
    /\ last.full
    /\ savedVersions[1].id = last.id
    /\ savedVersions[20].savedAt > 1

-----------------------------------------------------------------------------
(* Chair geometry                                                          *)
(* Angles are in ten-thousandths of a radian, cosines and sines in         *)
(* ten-thousandths, chair offsets in hundredths of a pixel                 *)

\* Math.cos: the argument brought into [0, 2 pi), then into the first
\* quarter, then the series 1 - x^2/2! + x^4/4! - x^6/6! + x^8/8!
cos(a) ==
    LET pi == 31416
        y == a % (2 * pi)
        q == IF y <= pi \div 2 THEN y
             ELSE IF y <= pi THEN pi - y
             ELSE IF y <= (3 * pi) \div 2 THEN y - pi
             ELSE 2 * pi - y
        x2 == (q * q) \div 10000
        x4 == (x2 * x2) \div 10000
        x6 == (x4 * x2) \div 10000
        x8 == ((x6 \div 10) * x2) \div 1000
        c == 10000 - x2 \div 2 + x4 \div 24 - x6 \div 720 + x8 \div 40320
    IN  IF y <= pi \div 2 \/ y > (3 * pi) \div 2 THEN c ELSE 0 - c
\* Math.sin
sin(a) == cos(a - 15708)

ChairDotNoRotation(index, total, radius, rotation) ==
    LET angle == (62832 * index) \div total
    IN  [x |-> (cos(angle) * radius + 50) \div 100,
         y |-> (sin(angle) * radius + 50) \div 100]

\* ChairDot: the offset of the chair decoration of a round table
ChairDot(index, total, radius, rotation) ==
    LET angle == (62832 * index) \div total + 100 * rotation
    IN  [x |-> (cos(angle) * radius + 50) \div 100,
         y |-> (sin(angle) * radius + 50) \div 100]

ChairRectFloor(index, total, w, h) ==
    LET perSide == Max(1, total \div 4)
        side == index \div perSide
        posOnSide == index % perSide
        t == IF perSide <= 1 THEN [num |-> 1, den |-> 2]
             ELSE [num |-> posOnSide, den |-> perSide - 1]
        along(len) == (0 - 50 * len) + (100 * t.num * len) \div t.den
    IN  [side |-> side, t |-> t,
         x |-> IF side = 0 \/ side = 2 THEN along(w)
               ELSE IF side = 1 THEN 50 * w ELSE 0 - 50 * w,
         y |-> IF side = 0 THEN 0 - 50 * h
               ELSE IF side = 2 THEN 50 * h ELSE along(h)]

\* ChairRect: the side, the fraction along it and the offset of the chair
\* decoration of a rectangular table
ChairRect(index, total, w, h) ==
    LET perSide == (total + 3) \div 4
        side == index \div perSide
        posOnSide == index % perSide
        t == IF perSide <= 1 THEN [num |-> 1, den |-> 2]
             ELSE [num |-> posOnSide, den |-> perSide - 1]
        along(len) == (0 - 50 * len) + (100 * t.num * len) \div t.den
    IN  [side |-> side, t |-> t,
         x |-> IF side = 0 \/ side = 2 THEN along(w)
               ELSE IF side = 1 THEN 50 * w ELSE 0 - 50 * w,
         y |-> IF side = 0 THEN 0 - 50 * h
               ELSE IF side = 2 THEN 50 * h ELSE along(h)]

\* the seat marker of chair i (from 0) of table t: lines 2000-2030
seatOffset(t, i) ==
    LET total == Len(t.chairs)
        angle == IF t.shape = "round" THEN (62832 * i) \div total + 100 * t.rotation ELSE 0
        r == IF t.shape = "round" THEN 70 ELSE 0
        perSide == (total + 3) \div 4
        side == i \div perSide
        posOnSide == i % perSide
        tt == IF perSide <= 1 THEN [num |-> 1, den |-> 2]
              ELSE [num |-> posOnSide, den |-> perSide - 1]
        w == 126
        h == 74
        along(len) == (0 - 50 * len) + (100 * tt.num * len) \div tt.den
    IN  IF t.shape = "round"
        THEN [side |-> 0, t |-> [num |-> 0, den |-> 1],
              x |-> (cos(angle) * r + 50) \div 100, y |-> (sin(angle) * r + 50) \div 100]
        ELSE [side |-> side, t |-> tt,
              x |-> IF side = 0 \/ side = 2 THEN along(w)
                    ELSE IF side = 1 THEN 50 * w + 1800 ELSE 0 - 50 * w - 1800,
              y |-> IF side = 0 THEN 0 - 50 * h - 1800
                    ELSE IF side = 2 THEN 50 * h + 1800 ELSE along(h)]

\* the chair decoration of chair i (from 0) of table t: lines 1977-1996
chairOffset(t, i) ==
    IF t.shape = "rect" THEN ChairRect(i, Len(t.chairs), 126, 74)
    ELSE [side |-> 0, t |-> [num |-> 0, den |-> 1]]
         @@ ChairDot(i, Len(t.chairs), IF t.shape = "rect" THEN 80 ELSE 70, t.rotation)

\* rotations the rotate buttons are followed to, in hundredths of a radian
MaxRotation == 30

\* shape select of the selected table: setTablePatch(selectedTable.id, {shape})
ChangeShape(v) ==
    /\ renders
    /\ hasSelectedTable
    /\ v # selectedTable.shape
    /\ tables' = Map(tables, LAMBDA t :
                     IF t.id = selectedTable.id THEN [t EXCEPT !.shape = v] ELSE t)
    /\ Record([op |-> "setShape", shape |-> v])
    /\ UNCHANGED <<guests, selectedTableId, activeSeat, draggedGuestId, viewVars,
                   persistVars, uidCount, toast, savedPlans>>

\* rotate-left and rotate-right buttons: rotation -/+ 0.15
ClickRotate(d) ==
    /\ renders
    /\ hasSelectedTable
    /\ selectedTable.rotation + d \in (0 - MaxRotation)..MaxRotation
    /\ tables' = Map(tables, LAMBDA t :
                     IF t.id = selectedTable.id
                     THEN [t EXCEPT !.rotation = selectedTable.rotation + d] ELSE t)
    /\ Record([op |-> "rotate", by |-> d])
    /\ UNCHANGED <<guests, selectedTableId, activeSeat, draggedGuestId, viewVars,
                   persistVars, uidCount, toast, savedPlans>>

ChairsNext ==
    \/ \E n \in MinChairs..MaxChairs : ChangeChairCount(n)
    \/ \E v \in {"round", "rect"} : ChangeShape(v)
    \/ \E d \in {-15, 15} : ClickRotate(d)

SpecChairs == Init /\ [][ChairsNext]_vars

\* C31: for every rectangular table with n chairs, 2 <= n <= 20, and
\* p = ceil(n/4), chair i (from 0) is on side floor(i/p), one of the sides
\* 0..3, at the fraction (i mod p)/(p-1) of that side (1/2 when p = 1), for
\* the decoration and for the seat marker alike and whatever the table's
\* rotation; with n = 12 every side has 3 chairs, the first at fraction 0
\* and the last at fraction 1, which are the two corners of the side.
C31_RectChairs ==
    \A k \in DOMAIN tables :
        LET tb == tables[k]
            n == Len(tb.chairs)
            p == CHOOSE q \in 1..MaxChairs : 4 * q >= n /\ 4 * (q - 1) < n
            onSide(sd) == {i \in 0..(n - 1) : chairOffset(tb, i).side = sd}
        IN  (tb.shape = "rect" /\ n \in 2..20) =>
                /\ \A i \in 0..(n - 1) :
                       LET c == chairOffset(tb, i)
                           m == seatOffset(tb, i)
                       IN  /\ c.side = i \div p /\ c.side \in 0..3
                           /\ IF p = 1 THEN 2 * c.t.num = c.t.den
                              ELSE c.t.num * (p - 1) = (i % p) * c.t.den
                           /\ m.side = c.side /\ m.t = c.t
                           /\ \A r \in {-15, 0, 15} :
                                  /\ chairOffset([tb EXCEPT !.rotation = r], i) = c
                                  /\ seatOffset([tb EXCEPT !.rotation = r], i) = m
                /\ n = 12 =>
                       \A sd \in 0..3 :
                           /\ Cardinality(onSide(sd)) = 3
                           /\ chairOffset(tb, 3 * sd).t.num = 0
                           /\ chairOffset(tb, 3 * sd + 2).t.num = chairOffset(tb, 3 * sd + 2).t.den
                           /\ {[x |-> chairOffset(tb, i).x, y |-> chairOffset(tb, i).y] :
                                   i \in {3 * sd, 3 * sd + 2}}
                              \subseteq {[x |-> x, y |-> y] : x \in {-6300, 6300},
                                                             y \in {-3700, 3700}}

\* a rectangular table with 12 chairs has just been rotated
C31_Witness ==
    /\ last.op = "rotate"
    /\ \E k \in DOMAIN tables :
           /\ tables[k].shape = "rect"
           /\ Len(tables[k].chairs) = 12
           /\ tables[k].rotation # 0

-----------------------------------------------------------------------------
(* Loads of server versions that overlap                                   *)

\* versions posted by other sessions, the mount effect, the Load buttons of
\* the server list, and the responses in any order
RaceNext ==
    \/ \E body \in {[name |-> "A", guests |-> Arr(guests), tables |-> Arr(<<>>)],
                    [name |-> "B", guests |-> Arr(<<>>),
                     tables |-> Arr(toJsonTables(defaultTables))]},
          pos \in 0..MaxVersions : ApiPost(body, "ok", pos)
    \/ \E i \in 1..MaxInflight : ServerList(i, TRUE)
    \/ \E i \in 1..MaxInflight : ListSettle(i)
    \/ \E i \in 1..MaxInflight : AutoLoadSettle(i)
    \/ \E k \in 1..MaxVersions : LoadServerVersion(k)
    \/ \E i \in 1..MaxInflight : ServerGet(i)
    \/ \E i \in 1..MaxInflight : LoadSettle(i)

SpecRace == Init /\ [][RaceNext]_vars

\* C33: a load of a server version applies the payload of its response
\* whenever that response arrives, also when the response of a load triggered
\* after it has been applied already: the plan shown is the payload of the
\* response that arrived last.
C33_Step ==
    (last'.op = "loadServerVersion" /\ last'.loaded) =>
        \A id \in {last'.id} :
            /\ getVersion(id) # None
            /\ guests' = getVersion(id)[1].guests.items
            /\ toJsonTables(tables') = getVersion(id)[1].tables.items
C33_LastResponseWins == [][C33_Step]_vars

\* both loads have completed and the version whose load was triggered first
\* is shown, the response of the load triggered after it having been applied
\* before
C33_Witness ==
    /\ last.op = "loadServerVersion"
    /\ last.loaded
    /\ last.overtakenBy # Null
    /\ last.overtakenBy # last.id
    /\ inflight = <<>>
    /\ guests = getVersion(last.id)[1].guests.items
    /\ guests # getVersion(last.overtakenBy)[1].guests.items

\* C34: a pointer-up on the stage leaves no pan and no table drag under way;
\* from then on, until a pointer-down, none is under way, and a pointer-move
\* changes neither pan nor the position of any table.
C34_Step ==
    LET idle == ~panning /\ panStart = None /\ dragging = None
    IN  /\ (last'.op = "stagePointerUp") =>
               (~panning' /\ panStart' = None /\ dragging' = None)
        /\ (idle /\ last'.op \notin {"stagePointerDown", "tablePointerDown"}) =>
               (~panning' /\ panStart' = None /\ dragging' = None)
        /\ (idle /\ last'.op = "stagePointerMove") =>
               /\ pan' = pan
               /\ Len(tables') = Len(tables)
               /\ \A i \in DOMAIN tables :
                      tables'[i].x = tables[i].x /\ tables'[i].y = tables[i].y
C34_PointerUpEndsGesture == [][C34_Step]_vars

\* after a pan gesture that moved the view and a drag that moved a table, both
\* ended by a pointer-up, the pointer has moved back and nothing followed it
C34_Witness ==
    /\ last.op = "stagePointerMove"
    /\ last.p = [x |-> 0, y |-> 0]
    /\ ~panning /\ panStart = None /\ dragging = None
    /\ pan.x = MaxPan
    /\ tables[1].x # defaultTables[1].x

\* C35: when setChairsCount grows a table from m to k > m chairs, the first m
\* chairs are those of before, ids and guests in order, and the k - m chairs
\* after them hold no guest and have ids that differ from each other and from
\* the id of every chair the table had; a call whose clamped count is the
\* current count leaves the table as it was.
C35_Step ==
    last'.op = "setChairsCount" =>
        \A i \in DOMAIN tables :
            tables[i].id = last'.tableId =>
                LET m == Len(tables[i].chairs)
                    k == Len(tables'[i].chairs)
                    clamped == IF last'.count < 2 THEN 2
                               ELSE IF last'.count > 20 THEN 20 ELSE last'.count
                    old == {tables[i].chairs[j].id : j \in 1..m}
                IN  /\ k > m =>
                        /\ SubSeq(tables'[i].chairs, 1, m) = tables[i].chairs
                        /\ \A j \in (m + 1)..k :
                               /\ tables'[i].chairs[j].guestId = Undefined
                               /\ tables'[i].chairs[j].id \notin old
                               /\ \A h \in (m + 1)..k :
                                      h # j => tables'[i].chairs[h].id # tables'[i].chairs[j].id
                    /\ clamped = m => tables'[i] = tables[i]
C35_GrowAppendsFreshChairs == [][C35_Step]_vars

\* a table with a seated guest has just been grown to 20 chairs
C35_Witness ==
    /\ last.op = "setChairsCount"
    /\ last.count > 20
    /\ \E i \in DOMAIN tables :
           /\ tables[i].id = last.tableId
           /\ Len(tables[i].chairs) = 20
           /\ tables[i].chairs[1].guestId # Undefined
           /\ tables[i].chairs[20].guestId = Undefined

-----------------------------------------------------------------------------
(* The handlers of the plan, of the stage and of the local versions together *)

\* no pointer is held down on the stage: the buttons are clicked with the
\* pointer that drags and pans
pointerIdle == ~panning /\ dragging = None

\* versions are saved of plans whose tables are those of the initial plan,
\* whatever the guests are
tablesUntouched == tables = defaultTables /\ pan = [x |-> 0, y |-> 0]

FrameNext ==
    \/ pointerIdle /\ ClickSaveGuest("Dr Eve Stone", "female")
    \/ pointerIdle /\ ClickRemoveGuest(1)
    \/ pointerIdle /\ ClickAddTable("rect")
    \/ pointerIdle /\ ClickDuplicateTable
    \/ pointerIdle /\ ClickDeleteTable
    \/ pointerIdle /\ ChangeChairCount(2)
    \/ pointerIdle /\ ClickRotate(15)
    \/ pointerIdle /\ CallAssignGuest(1, 1, defaultGuests[1].id)
    \/ pointerIdle /\ CallUnassignGuestEverywhere(defaultGuests[1].id)
    \/ pointerIdle /\ SetTool("select")
    \/ pointerIdle /\ SetSaveDestination("local")
    \/ pointerIdle /\ tablesUntouched /\ ClickSaveVersion(" Plan A ")
    \/ pointerIdle /\ LoadLocalVersion(1)
    \/ TablePointerDown(1, [x |-> 0, y |-> 0])
    \/ StagePointerDown([x |-> 0, y |-> 0])
    \/ StagePointerMove([x |-> MaxPan, y |-> 0])
    \/ StagePointerUp

SpecFrame == Init /\ [][FrameNext]_vars

\* C36: the guest list, members and order, changes only when a guest is
\* added, when removeGuest runs, and when a version is loaded or imported:
\* addTable, duplicateTable, deleteTable, setChairsCount, setTablePatch,
\* assignGuest, unassignGuestEverywhere, a table drag, a pan, a rotation and
\* the saving of a version leave it as it was.
C36_Step ==
    (last'.op \notin {"addGuest", "removeGuest", "loadLocalVersion", "loadServerVersion",
                      "autoLoad", "import"})
        => guests' = guests
C36_GuestListFrame == [][C36_Step]_vars

\* the table of a seated guest has just been deleted and the guest is still
\* in the list, after a guest was added to it
C36_Witness ==
    /\ last.op = "deleteTable"
    /\ tables = <<>>
    /\ Len(guests) > Len(defaultGuests)
    /\ \E i \in DOMAIN guests : guests[i].id = defaultGuests[1].id

-----------------------------------------------------------------------------
(* The selection: every handler that calls setSelectedTableId or removes tables *)

\* a file of guests with an empty tables array
emptyPlanFile == File(TRUE, TRUE, Arr(importedGuests), Arr(<<>>), None, None)

SelectNext ==
    \/ ClickAddTable("round")
    \/ ClickDuplicateTable
    \/ ClickDeleteTable
    \/ KeyDelete
    \/ \E i \in 1..(DefaultTableCount + MaxUid) : ClickSelectTable(i)
    \/ \E i \in 1..(DefaultTableCount + MaxUid) : ClickSeat(i, 1)
    \/ SetTool("select")
    \/ \E i \in 1..(DefaultTableCount + MaxUid) : TablePointerDown(i, [x |-> 0, y |-> 0])
    \/ StagePointerUp
    \/ SetSaveDestination("local")
    \/ ClickSaveVersion(" Plan A ")
    \/ LoadLocalVersion(1)
    \/ \E f \in ImportFiles \cup {emptyPlanFile} : HandleImportFile(f)
    \/ \E i \in 1..MaxInflight : ReaderOnload(i)

SpecSelect == Init /\ [][SelectNext]_vars

selectedExists ==
    selectedTableId = Null \/ \E i \in DOMAIN tables : tables[i].id = selectedTableId

\* C37: in every reachable state selectedTableId is null or the id of a
\* table of the plan, after addTable, duplicateTable, deleteTable, the Delete
\* key, the start of a drag and a click on a seat; a version that is loaded
\* or imported selects its first table, or nothing when it has no tables.
C37_Step ==
    (last'.op = "loadLocalVersion" \/ (last'.op = "import" /\ last'.arrays))
        => selectedTableId' = IF tables' = <<>> THEN Null ELSE tables'[1].id
C37_SelectionExists == [](selectedExists) /\ [][C37_Step]_vars

\* the selected table has just been deleted while another table stays, and
\* nothing is selected
C37_Witness ==
    /\ last.op = "deleteTable"
    /\ tables # <<>>
    /\ selectedTableId = Null

-----------------------------------------------------------------------------
(* The open popover while tables and chairs are removed or replaced *)

PopoverNext ==
    \/ \E i \in 1..(DefaultTableCount + MaxUid), j \in 1..MaxSeatPick : OpenSeat(i, j)
    \/ CloseSeat
    \/ KeyEscape
    \/ KeyDelete
    \/ ClickDeleteTable
    \/ ClickAddTable("round")
    \/ \E n \in {2, 4} : ChangeChairCount(n)
    \/ HandleImportFile(File(TRUE, TRUE, Arr(importedGuests),
                             Arr(importedTables(ImportChairs)), None, None))
    \/ \E i \in 1..MaxInflight : ReaderOnload(i)

SpecPopover == Init /\ [][PopoverNext]_vars

-----------------------------------------------------------------------------
(* Saves to the server with requests that settle *)

\* the request at place i is answered by the server, or fetch rejects
Answer(i) ==
    \/ \E w \in BOOLEAN : ServerPost(i, w)
    \/ \E r \in BOOLEAN : ServerList(i, r)
    \/ ServerGet(i)
    \/ Disconnect(i)

SaveNext ==
    \/ ClickSaveVersion(" Plan A ")
    \/ EnterSaveVersion("   ")
    \/ ClickDeleteTable
    \/ ClickAddTable("rect")
    \/ \E i \in 1..MaxInflight : Answer(i)
    \/ \E i \in 1..MaxInflight : SaveSettle(i)
    \/ \E i \in 1..MaxInflight : ListSettle(i)
    \/ \E i \in 1..MaxInflight : AutoLoadSettle(i)

\* every request settles, and the function that awaits a settled request
\* goes on
SpecSave ==
    /\ Init /\ [][SaveNext]_vars
    /\ \A i \in 1..MaxInflight :
           /\ WF_vars(Answer(i))
           /\ WF_vars(SaveSettle(i))
           /\ WF_vars(ListSettle(i))
           /\ WF_vars(AutoLoadSettle(i))

\* C39: every save to the server that is started ends with serverSaveLoading
\* false again, after a 201, after another status and after a network error,
\* also when the refresh of the list that follows the 201 fails.
C39_SaveLoadingEnds == serverSaveLoading ~> ~serverSaveLoading

\* the refresh of the list after a stored save has failed, the save is
\* reported and the button is enabled again
C39_Witness ==
    /\ last.op = "listSettle"
    /\ last.status # 200
    /\ toast = "Version saved"
    /\ ~serverSaveLoading

-----------------------------------------------------------------------------
(* The mount effect: loadLatestServerVersion, and the cleanup that unmounts *)

\* a request of the mount effect after the cleanup has run: its function
\* returns at the next test of `mounted` and the request stays recorded
pageMounted ==
    \A i \in DOMAIN inflight : inflight[i].then \notin {"unmounted", "unmountedLate"}

\* the cleanup of the mount effect: mounted = false. A response that has
\* arrived has passed its test of `mounted` (late) or not yet; the body of
\* a passed response is still read by res.json()
Unmount(late) ==
    /\ pageMounted
    /\ \E i \in DOMAIN inflight : inflight[i].then = "mount"
    /\ inflight' = [j \in DOMAIN inflight |->
                      IF inflight[j].then # "mount" THEN inflight[j]
                      ELSE IF late /\ inflight[j].kind = "load" /\ inflight[j].phase = "done"
                      THEN [inflight[j] EXCEPT !.then = "unmountedLate"]
                      ELSE [inflight[j] EXCEPT !.then = "unmounted"]]
    /\ Record([op |-> "unmount", late |-> late])
    /\ UNCHANGED <<planVars, viewVars, saveDestination, savedVersions, serverVersions,
                   serverSaveLoading, serverFiles, uidCount, toast, savedPlans>>

\* loadLatestServerVersion after res.json() when the page was unmounted
\* while the body was read: the setters of an unmounted component do
\* nothing, toast() is the function of the toast module
AutoLoadLate(i) ==
    /\ i \in DOMAIN inflight
    /\ inflight[i].kind = "load" /\ inflight[i].phase = "done"
    /\ inflight[i].then = "unmountedLate"
    /\ toast' = IF inflight[i].status = 200 /\ ~applyThrows(inflight[i].res[1])
                THEN "Loaded latest version" ELSE toast
    /\ inflight' = [inflight EXCEPT ![i].then = "unmounted"]
    /\ Record([op |-> "autoLoadLate", hasAutoLoaded |-> FALSE])
    /\ UNCHANGED <<planVars, viewVars, saveDestination, savedVersions, serverVersions,
                   serverSaveLoading, serverFiles, uidCount, savedPlans>>

\* a version another session of the page has posted
postedBody ==
    [name |-> "Plan B", guests |-> Arr(<<>>), tables |-> Arr(toJsonTables(defaultTables))]

MountNext ==
    \/ \E b \in OtherBodies \cup {postedBody} : OtherClientPost(b)
    \/ pageMounted /\ ClickDeleteTable
    \/ pageMounted /\ ClickRemoveGuest(1)
    \/ pageMounted /\ CallUnassignGuestEverywhere(defaultGuests[1].id)
    \/ pageMounted /\ StagePointerDown([x |-> 0, y |-> 0])
    \/ pageMounted /\ StagePointerMove([x |-> MaxPan, y |-> 0])
    \/ pageMounted /\ StagePointerUp
    \/ \E i \in 1..MaxInflight, r \in BOOLEAN : ServerList(i, r)
    \/ \E i \in 1..MaxInflight : ServerGet(i)
    \/ \E i \in 1..MaxInflight : Disconnect(i)
    \/ \E i \in 1..MaxInflight : pageMounted /\ ListSettle(i)
    \/ \E i \in 1..MaxInflight : pageMounted /\ AutoLoadSettle(i)
    \/ \E late \in BOOLEAN : Unmount(late)
    \/ \E i \in 1..MaxInflight : AutoLoadLate(i)

SpecMount == Init /\ [][MountNext]_vars

mountRequests(q) ==
    {i \in DOMAIN q : q[i].then \in {"mount", "unmounted", "unmountedLate"}}

\* C40: the auto-load of the mount effect applies at most once and only
\* while the page is mounted; a response with status OK replaces guests,
\* tables, selected table, stage size and pan by those of the latest version
\* of the server, whatever was edited since the mount; every path that ends
\* while mounted sets hasAutoLoaded, and the paths without an OK response (no
\* versions, another status, an error) leave the plan as it was.
C40_Step ==
    /\ Cardinality(mountRequests(inflight')) <= Cardinality(mountRequests(inflight))
    /\ Cardinality(mountRequests(inflight)) <= 1
    /\ last'.op = "autoLoad" => mountRequests(inflight') = {} /\ last'.hasAutoLoaded
    /\ (last'.op = "autoLoad" /\ last'.status = 200) =>
           LET data == last'.version[1]
               tablesCopy == fromJsonTables(data.tables.items)
           IN  /\ guests' = data.guests.items
               /\ tables' = tablesCopy
               /\ selectedTableId' = IF Len(tablesCopy) > 0 THEN tablesCopy[1].id ELSE Null
               /\ stageSize' = IF data.stageSize # None THEN data.stageSize[1]
                               ELSE IF applyThrows(data) THEN [w |-> 0, h |-> 0]
                               ELSE calculateStageSize(tablesCopy)
               /\ pan' = IF data.pan # None THEN data.pan[1] ELSE [x |-> 0, y |-> 0]
    /\ ((last'.op = "autoLoad" /\ last'.status # 200)
            \/ (last'.op = "listSettle" /\ last'.hasAutoLoaded))
           => UNCHANGED <<guests, tables, selectedTableId, stageSize, pan>>
    /\ ~pageMounted' =>
           /\ UNCHANGED <<guests, tables, selectedTableId, stageSize, pan>>
           /\ last'.op \notin {"autoLoad", "listSettle"}
C40_AutoLoadOnceWhileMounted == [][C40_Step]_vars

====
